---- MODULE Spec2Model ----
(***************************************************************************)
(* The trainer state machine of learning_loop_node (TrainerLogic): the     *)
(* in-memory Training, the last-training marker on disk, the state loop    *)
(* task with its handlers, the supervised executor subprocess, stop(),     *)
(* shutdown(), process kill and restart-resume; and the TrainerNode of the *)
(* first generation with its Trainer: begin_training, stop_training,       *)
(* check_state and send_status as coroutines on one event loop.            *)
(* Next to them, each with a specification of its own: the category ids a  *)
(* DetectorNode puts on detections, the detection batches _do_detections   *)
(* saves, sync_confusion_matrix and the models it publishes,               *)
(* DataDownloader.download_images, Trainer._upload_detections, the base    *)
(* Node on connect and disconnect, the Executor and its subprocess, and    *)
(* the try blocks an exception meets on its way out of a handler; and two  *)
(* further specifications: SpecCleanup, in which the send_status at the    *)
(* end of clear_training may fail, and SpecReconnect, in which the         *)
(* connection of the TrainerNode may drop and come back.                   *)
(***************************************************************************)
EXTENDS Integers, Sequences, FiniteSets, TLC

\* ------------------------------------------------------------------ bounds
MaxTrainings == 2    \* begin_training events accepted in one behaviour
MaxKills == 1        \* times the process is killed
MaxFormats == 2      \* model formats get_latest_model_files may return
MaxBatches == 2      \* detection batches one _do_detections run writes
MaxTasks == 2        \* run() tasks that may exist at once
MaxNodeEvents == 3   \* events and check_state runs a TrainerNode handles
MaxCategories == 2   \* categories of the model of a detector
MaxDetections == 2   \* detections the detector returns for one image
MaxSnapshots == 2    \* models a training subprocess writes
MaxImages == 11      \* image ids one download_images call is given
MaxStatuses == 4     \* statuses a Node sends
MaxStarts == 3       \* subprocesses one Executor starts

\* ------------------------------------------------------------ data classes
States ==
  << "Initialized", "DataDownloading", "DataDownloaded",
     "TrainModelDownloading", "TrainModelDownloaded", "TrainingRunning",
     "TrainingFinished", "ConfusionMatrixSyncing", "ConfusionMatrixSynced",
     "TrainModelUploading", "TrainModelUploaded", "Detecting", "Detected",
     "DetectionUploading", "ReadyForCleanup" >>

StateSet == { States[i] : i \in 1..Len(States) }

TaskIds == 1..MaxTasks

\* The value of `_training` when no training is active, and of the marker
\* when last_training.json does not exist.
None ==
  [id |-> 0, training_state |-> "None", data |-> FALSE, model_id_for_detecting |-> 0,
   base_model_id |-> "none"]

\* details['id'] of begin_training: the uuid4 of a model of the loop, the name
\* of one of provided_pretrained_models, or any other string.
BaseModelIds == {"uuid4", "pretrained", "unknown"}

is_valid_uuid4(base) == base = "uuid4"

NewTraining(id, base) ==
  [id |-> id, training_state |-> "Initialized", data |-> FALSE, model_id_for_detecting |-> 0,
   base_model_id |-> base]

IdleTask ==
  [pc |-> "none", tstate |-> "None", key |-> "none", prev |-> "None",
   n |-> 0, i |-> 0, u |-> 0, loaded |-> {}, cancelled |-> FALSE]

\* The coroutines of TrainerNode: the handlers of the connect, begin_training
\* and stop_training events, and the periodic check_state.
NodeTasks == {"connect", "begin", "stop", "check"}

\* A call of one of the coroutines of TrainerNode, with its arguments and
\* locals. pc is the place where it goes on when what it awaits is there.
Frame(fn) ==
  [fn |-> fn, pc |-> "start", save_and_detect |-> TRUE, state |-> "none", result |-> TRUE,
   uploaded_model |-> FALSE, error |-> FALSE, model |-> FALSE, base_model_id |-> "none"]

\* Node.reset() and Trainer.__init__: status.state, status._errors, and of the
\* trainer: training ("none", "nodata" while its data is None, "ready"), and
\* executor ("none", "created" without process, "running", "exited").
\* events counts the begin_training and stop_training events and the runs of
\* check_state so far; ev lists what the last step of a coroutine did.
NodeReset ==
  [state |-> "Offline", errors |-> {}, training |-> "none", executor |-> "none",
   model_published |-> FALSE, events |-> 0, ev |-> << >>]

VARIABLES
  alive,                     \* the node process is running
  training,                  \* TrainerLogic._training
  marker,                    \* last_training.json
  errors,                    \* keys of the current error map
  tasks,                     \* the run() tasks, by slot
  training_task,             \* TrainerLogic.training_task: 0 None, -1 a finished task, else slot
  executor,                  \* "none" | "idle" | "running"
  logError,                  \* get_executor_error_from_log() returns a text
  shutdown_event,
  model_upload_progress,     \* model_upload_progress.json of the training folder
  detections,                \* number of detections/<idx>.json files
  detection_upload_progress, \* number of batches recorded as uploaded
  uploadCount,               \* per training id and format: uploads the loop accepted
  posted,                    \* batch indices POSTed for the current training, in order
  nextId,                    \* trainings generated so far
  kills,
  launched,                  \* the hook awaited as start_training_task: its name, or "none"
  base_model_json,           \* base_model.json exists in the training folder
  node,                      \* TrainerNode with its Trainer (first generation)
  stacks,                    \* the coroutines of TrainerNode: their suspended calls, innermost first
  detector,                  \* DetectorNode: the categories of its model, the detections of one image
  detecting,                 \* one _do_detections run: its images, its loop, the batch files
  sync,                      \* sync_confusion_matrix: the models of a training and what the loop got
  download,                  \* DataDownloader.download_images: the ids, the image folder, the requests
  upload,                    \* Trainer._upload_detections: the detections, the POSTs, what the loop took
  basenode,                  \* Node (node.py): its status.state, its event channel, the statuses sent
  popen,                     \* Executor (executor.py): self.process, the child, the signals sent to it
  unwind,                    \* an exception on its way out of the try blocks around an await
  last                       \* the operation that made the last step

vars == << alive, training, marker, errors, tasks, training_task, executor, logError,
           shutdown_event, model_upload_progress, detections, detection_upload_progress,
           uploadCount, posted, nextId, kills, launched, base_model_json, node, stacks, detector, detecting, sync,
           download, upload, basenode, popen, unwind, last >>

training_active == training # None

InitTrainer ==
  /\ alive = TRUE
  /\ training = None
  /\ marker = None
  /\ errors = {}
  /\ tasks = [t \in TaskIds |-> IdleTask]
  /\ training_task = 0
  /\ executor = "none"
  /\ logError = FALSE
  /\ shutdown_event = FALSE
  /\ model_upload_progress = {}
  /\ detections = 0
  /\ detection_upload_progress = 0
  /\ uploadCount = [id \in 1..MaxTrainings |-> [f \in 1..MaxFormats |-> 0]]
  /\ posted = << >>
  /\ nextId = 0
  /\ kills = 0
  /\ launched = "none"
  /\ base_model_json = FALSE
  /\ node = NodeReset
  /\ stacks = [k \in NodeTasks |-> << >>]
  /\ last = << "init", 0 >>

\* No training whose models are to be synced.
NoSync ==
  [tstate |-> "None", running |-> FALSE, snapshot |-> 0, pc |-> "idle", model |-> 0,
   caller |-> "none", sent |-> {}, accepted |-> {}, published |-> {}, error |-> FALSE,
   missed |-> FALSE]

\* A detector node that has not been asked for detections.
NoDetector == [categories |-> << >>, detections |-> << >>, evaluated |-> FALSE]

\* No _do_detections under way.
NoDetecting == [pc |-> "idle", n |-> 0, i |-> 0, idx |-> 0, disk |-> << >>, saves |-> 0]

\* No download_images under way.
NoDownload ==
  [pc |-> "idle", run |-> 0, image_ids |-> << >>, folder |-> {}, before |-> {},
   new_image_ids |-> << >>, i |-> 0, flying |-> {}, requested |-> << >>]

\* No _upload_detections under way.
NoUpload == [pc |-> "idle", n |-> 0, i |-> 0, posts |-> << >>, accepted |-> {}]

\* Node.__init__ (node.py, lines 20-47): reset() makes the status Offline;
\* nothing is connected, nothing has been sent.
NewNode == [state |-> "Offline", connected |-> FALSE, sent |-> << >>, calls |-> 0]

\* Executor.__init__ (executor.py, lines 9-12): self.process = None. child is
\* the subprocess as the system has it, signals what it has been sent since it
\* was started, pc where stop() stands.
NewExecutor ==
  [process |-> "None", child |-> "none", pc |-> "idle", signals |-> << >>, starts |-> 0,
   history |-> << >>]

\* No exception raised.
NoException ==
  [site |-> "none", exc |-> "none", depth |-> 0, errors |-> {}, rollback |-> FALSE,
   status |-> "idle"]

\* The parts next to the trainer, all but one of them, as they are constructed.
InitAside(but) ==
  /\ but = "detector" \/ detector = NoDetector
  /\ but = "detecting" \/ detecting = NoDetecting
  /\ but = "sync" \/ sync = NoSync
  /\ but = "download" \/ download = NoDownload
  /\ but = "upload" \/ upload = NoUpload
  /\ but = "basenode" \/ basenode = NewNode
  /\ but = "popen" \/ popen = NewExecutor
  /\ but = "unwind" \/ unwind = NoException

Init ==
  /\ InitTrainer
  /\ InitAside("none")

\* ----------------------------------------------------------------- helpers
files == << model_upload_progress, detections, detection_upload_progress >>
hist == << uploadCount, posted >>
proc == << alive, kills, nextId, shutdown_event >>
exec == << executor, logError >>
start == << launched, base_model_json >>
\* The parts besides the trainer, and for the steps of TrainerLogic all that
\* they leave alone.
aside == << detector, detecting, sync, download, upload, basenode, popen, unwind >>
but_detector == << detecting, sync, download, upload, basenode, popen, unwind >>
but_detecting == << detector, sync, download, upload, basenode, popen, unwind >>
but_sync == << detector, detecting, download, upload, basenode, popen, unwind >>
but_download == << detector, detecting, sync, upload, basenode, popen, unwind >>
but_upload == << detector, detecting, sync, download, basenode, popen, unwind >>
but_basenode == << detector, detecting, sync, download, upload, popen, unwind >>
but_popen == << detector, detecting, sync, download, upload, basenode, unwind >>
but_unwind == << detector, detecting, sync, download, upload, basenode, popen >>
others == << node, stacks, aside >>
logic == << alive, training, marker, errors, tasks, training_task, executor, logError,
            shutdown_event, model_upload_progress, detections, detection_upload_progress,
            uploadCount, posted, nextId, kills, launched, base_model_json >>

SetState(tr, s) == [tr EXCEPT !.training_state = s]

Max(a, b) == IF a >= b THEN a ELSE b

\* The task slot a new run() task gets.
FreeSlots == { t \in TaskIds : tasks[t].pc = "none" }
FreeSlot == CHOOSE t \in FreeSlots : \A u \in FreeSlots : t <= u

\* `while self._training is not None: tstate = ...; await asyncio.sleep(0.6)`:
\* the task record after a handler has returned to the loop head.
LoopHead(tr) ==
  IF tr = None THEN IdleTask
  ELSE [IdleTask EXCEPT !.pc = "sleep", !.tstate = tr.training_state]

\* Replace the record of task t; a task that ends leaves training_task
\* referring to a finished task.
TaskStep(t, rec) ==
  /\ tasks' = [tasks EXCEPT ![t] = rec]
  /\ training_task' = IF rec.pc = "none" /\ training_task = t THEN -1 ELSE training_task

\* The branches of the state loop that go through perform_state.
Handlers ==
  [Initialized |-> [key |-> "prepare", during |-> "DataDownloading", after |-> "DataDownloaded"],
   DataDownloaded |-> [key |-> "download_model", during |-> "TrainModelDownloading", after |-> "TrainModelDownloaded"],
   TrainModelDownloaded |-> [key |-> "run_training", during |-> "TrainingRunning", after |-> "TrainingFinished"],
   TrainingFinished |-> [key |-> "sync_confusion_matrix", during |-> "ConfusionMatrixSyncing", after |-> "ConfusionMatrixSynced"],
   TrainModelUploaded |-> [key |-> "detecting", during |-> "Detecting", after |-> "Detected"],
   Detected |-> [key |-> "upload_detections", during |-> "DetectionUploading", after |-> "ReadyForCleanup"]]

AfterOf(key) ==
  LET s == CHOOSE s \in DOMAIN Handlers : Handlers[s].key = key IN Handlers[s].after

\* States for which _run_training_loop has a branch.
LoopBranches == DOMAIN Handlers \cup {"ConfusionMatrixSynced", "ReadyForCleanup"}

\* ------------------------------------------------------------ perform_state
\* perform_state, steps 1-2: record the transitioning state, persist, await fn.
PerformStateBegin(t, rec) ==
  LET h == Handlers[tasks[t].tstate] IN
  /\ training' = SetState(training, h.during)
  /\ marker' = training'
  /\ TaskStep(t, [rec EXCEPT !.pc = "fn", !.key = h.key, !.prev = training.training_state])

\* perform_state, step 3: fn returned. tr is the training as fn left it.
PerformStateSuccess(t, tr) ==
  /\ training' = SetState(tr, AfterOf(tasks[t].key))
  /\ marker' = training'
  /\ errors' = errors \ {tasks[t].key}
  /\ TaskStep(t, LoopHead(training'))

\* perform_state, step 4: fn raised an exception other than cancellation.
PerformStateError(t) ==
  /\ training' = SetState(training, tasks[t].prev)
  /\ marker' = training'
  /\ errors' = errors \cup {tasks[t].key}
  /\ TaskStep(t, LoopHead(training'))

\* ------------------------------------------------------------ begin / run
\* begin_training event: init_new_training and create_task(run()). The new
\* training gets a folder of its own, with no log in it.
\* overlap = FALSE: the loop sends the event to an idle trainer only.
BeginTraining(overlap, base) ==
  /\ alive
  /\ nextId < MaxTrainings
  /\ FreeSlots # {}
  /\ overlap \/ (training = None /\ FreeSlots = TaskIds)
  /\ nextId' = nextId + 1
  /\ training' = NewTraining(nextId', base)
  /\ tasks' = [tasks EXCEPT ![FreeSlot] = [IdleTask EXCEPT !.pc = "created"]]
  /\ model_upload_progress' = {}
  /\ detections' = 0
  /\ detection_upload_progress' = 0
  /\ posted' = << >>
  /\ logError' = FALSE
  /\ base_model_json' = FALSE
  /\ last' = << "begin_training", FreeSlot >>
  /\ UNCHANGED << alive, kills, shutdown_event, marker, errors, training_task, executor, uploadCount, launched >>
  /\ UNCHANGED others

\* run() starts: errors.reset_all(), training_task = create_task(_run_training_loop()).
RunStart(t) ==
  /\ alive
  /\ tasks[t].pc = "created"
  /\ errors' = {}
  /\ tasks' = [tasks EXCEPT ![t] = LoopHead(training)]
  /\ training_task' = IF training = None THEN -1 ELSE t
  /\ last' = << "run", t >>
  /\ UNCHANGED << proc, training, marker, exec, files, hist >>
  /\ UNCHANGED start
  /\ UNCHANGED others

\* ------------------------------------------------------- the state loop
\* Initialized, DataDownloaded, TrainingFinished: perform_state around
\* _prepare, _download_model, sync_confusion_matrix.
DispatchPerform(t) ==
  /\ alive
  /\ tasks[t].pc = "sleep"
  /\ training # None
  /\ tasks[t].tstate \in {"Initialized", "DataDownloaded", "TrainingFinished"}
  /\ PerformStateBegin(t, tasks[t])
  /\ last' = << "dispatch", t >>
  /\ UNCHANGED << proc, errors, exec, files, hist >>
  /\ UNCHANGED start
  /\ UNCHANGED others

\* FnSuccess with the handler's result stored in the Training only after the
\* completed state was persisted.
FnSuccess_StoredAfterSave(t) ==
  /\ alive
  /\ training # None
  /\ tasks[t].pc = "fn"
  /\ tasks[t].key \in {"prepare", "download_model", "sync_confusion_matrix"}
  /\ marker' = SetState(training, AfterOf(tasks[t].key))
  /\ training' = [marker' EXCEPT !.data = TRUE]
  /\ errors' = errors \ {tasks[t].key}
  /\ TaskStep(t, LoopHead(training'))
  /\ base_model_json' = (base_model_json \/ (tasks[t].key = "download_model" /\ is_valid_uuid4(training.base_model_id)))
  /\ last' = << "success", t >>
  /\ UNCHANGED << proc, exec, files, hist, launched >>
  /\ UNCHANGED others

\* fn returned: _prepare stored the image data; _download_model fetched the
\* model of a uuid4 base_model_id and moved its model.json to base_model.json,
\* and did nothing for any other base_model_id; sync_confusion_matrix leaves
\* the Training alone.
FnSuccess(t) ==
  /\ alive
  /\ training # None
  /\ tasks[t].pc = "fn"
  /\ tasks[t].key \in {"prepare", "download_model", "sync_confusion_matrix"}
  /\ PerformStateSuccess(t, IF tasks[t].key = "prepare" THEN [training EXCEPT !.data = TRUE] ELSE training)
  /\ base_model_json' = (base_model_json \/ (tasks[t].key = "download_model" /\ is_valid_uuid4(training.base_model_id)))
  /\ last' = << "success", t >>
  /\ UNCHANGED << proc, exec, files, hist, launched >>
  /\ UNCHANGED others

\* FnError that records the error and leaves the transitioning state in place.
FnError_StaysTransitional(t) ==
  /\ alive
  /\ training # None
  /\ tasks[t].pc = "fn"
  /\ tasks[t].key = "run_training" => tasks[t].i = 0
  /\ tasks[t].key = "download_model" => is_valid_uuid4(training.base_model_id)
  /\ errors' = errors \cup {tasks[t].key}
  /\ TaskStep(t, LoopHead(training))
  /\ last' = << "error", t >>
  /\ UNCHANGED << proc, training, marker, exec, files, hist >>
  /\ UNCHANGED start
  /\ UNCHANGED others

\* fn raised: a request answered with a status other than 200, a hook that raised.
\* Inside _train only the start hook can raise this way; _download_model has
\* nothing that could fail unless base_model_id is a uuid4.
FnError(t) ==
  /\ alive
  /\ training # None
  /\ tasks[t].pc = "fn"
  /\ tasks[t].key = "run_training" => tasks[t].i = 0
  /\ tasks[t].key = "download_model" => is_valid_uuid4(training.base_model_id)
  /\ PerformStateError(t)
  /\ last' = << "error", t >>
  /\ UNCHANGED << proc, exec, files, hist >>
  /\ UNCHANGED start
  /\ UNCHANGED others

\* A state without a branch: the loop sleeps and looks again.
DispatchNoBranch(t) ==
  /\ alive
  /\ tasks[t].pc = "sleep"
  /\ training # None
  /\ tasks[t].tstate \notin LoopBranches
  /\ TaskStep(t, LoopHead(training))
  /\ last' = << "no_branch", t >>
  /\ UNCHANGED << proc, training, marker, errors, exec, files, hist >>
  /\ UNCHANGED start
  /\ UNCHANGED others

\* ------------------------------------------------------------------ _train
\* TrainModelDownloaded: perform_state around _train, which creates a new
\* Executor, forgets the last start_training_task and awaits the start hook.
DispatchTrain(t) ==
  /\ alive
  /\ tasks[t].pc = "sleep"
  /\ training # None
  /\ tasks[t].tstate = "TrainModelDownloaded"
  /\ PerformStateBegin(t, [tasks[t] EXCEPT !.i = 0])
  /\ executor' = "idle"
  /\ launched' = "none"
  /\ last' = << "dispatch", t >>
  /\ UNCHANGED << proc, errors, logError, files, hist, base_model_json >>
  /\ UNCHANGED others

\* StartHook that calls start_training() for every base_model_id.
StartHook_IgnoresBase(resume, base) ==
  IF resume THEN "resume" ELSE "start_training"

\* StartHook that looks at base_model_id before it asks can_resume().
StartHook_BaseFirst(resume, base) ==
  IF ~is_valid_uuid4(base) THEN "start_training_from_scratch"
  ELSE IF resume THEN "resume"
  ELSE "start_training"

\* The hook _start_training chooses: resume() if can_resume(), else
\* start_training_from_scratch(base_model_id) unless base_model_id is a uuid4,
\* else start_training().
StartHook(resume, base) ==
  IF resume THEN "resume"
  ELSE IF ~is_valid_uuid4(base) THEN "start_training_from_scratch"
  ELSE "start_training"

\* _start_training returned: the hook has launched the subprocess, whose
\* output is appended to last_training.log. stale: an error text of an earlier
\* subprocess is still what get_executor_error_from_log() finds. resume: what
\* can_resume() returned.
TrainStarted(t, stale, resume) ==
  /\ alive
  /\ training # None
  /\ tasks[t].pc = "fn" /\ tasks[t].key = "run_training" /\ tasks[t].i = 0
  /\ executor' = "running"
  /\ logError' = (stale /\ logError)
  /\ launched' = StartHook(resume, training.base_model_id)
  /\ tasks' = [tasks EXCEPT ![t].i = 1]
  /\ last' = << "train_started", t >>
  /\ UNCHANGED << proc, training, marker, errors, training_task, files, hist, base_model_json >>
  /\ UNCHANGED others

\* The subprocess exits on its own.
ProcessExit ==
  /\ alive
  /\ executor = "running"
  /\ executor' = "idle"
  /\ last' = << "process_exit", 0 >>
  /\ UNCHANGED << proc, training, marker, errors, tasks, training_task, logError, files, hist >>
  /\ UNCHANGED start
  /\ UNCHANGED others

\* The subprocess writes an error to last_training.log.
ProcessLogsError ==
  /\ alive
  /\ executor = "running"
  /\ ~logError
  /\ logError' = TRUE
  /\ last' = << "process_logs_error", 0 >>
  /\ UNCHANGED << proc, training, marker, errors, tasks, training_task, executor, files, hist >>
  /\ UNCHANGED start
  /\ UNCHANGED others

\* The supervision loop finds the subprocess gone and no error in the log.
TrainFinished(t) ==
  /\ alive
  /\ training # None
  /\ tasks[t].pc = "fn" /\ tasks[t].key = "run_training" /\ tasks[t].i = 1
  /\ executor # "running"
  /\ ~logError
  /\ PerformStateSuccess(t, training)
  /\ last' = << "success", t >>
  /\ UNCHANGED << proc, exec, files, hist >>
  /\ UNCHANGED start
  /\ UNCHANGED others

\* TrainError with the TrainingError swallowed by _train (no `raise`), so that
\* perform_state sees the handler return.
TrainError_NoRaise(t) ==
  /\ alive
  /\ training # None
  /\ tasks[t].pc = "fn" /\ tasks[t].key = "run_training" /\ tasks[t].i = 1
  /\ logError
  /\ executor' = IF executor = "running" THEN "idle" ELSE executor
  /\ PerformStateSuccess(t, training)
  /\ last' = << "error", t >>
  /\ UNCHANGED << proc, logError, files, hist >>
  /\ UNCHANGED start
  /\ UNCHANGED others

\* TrainError that leaves a live subprocess running.
TrainError_ExecutorKeepsRunning(t) ==
  /\ alive
  /\ training # None
  /\ tasks[t].pc = "fn" /\ tasks[t].key = "run_training" /\ tasks[t].i = 1
  /\ logError
  /\ PerformStateError(t)
  /\ last' = << "error", t >>
  /\ UNCHANGED << proc, exec, files, hist >>
  /\ UNCHANGED start
  /\ UNCHANGED others

\* The supervision loop finds an error in the log (after the subprocess has
\* gone, or at a 5s check): TrainingError, the executor is stopped, the state
\* is set back, and perform_state handles the exception.
TrainError(t) ==
  /\ alive
  /\ training # None
  /\ tasks[t].pc = "fn" /\ tasks[t].key = "run_training" /\ tasks[t].i = 1
  /\ logError
  /\ executor' = IF executor = "running" THEN "idle" ELSE executor
  /\ PerformStateError(t)
  /\ last' = << "error", t >>
  /\ UNCHANGED << proc, logError, files, hist >>
  /\ UNCHANGED start
  /\ UNCHANGED others

\* TrainSync without the inner try/except of _train: the failure of the sync
\* is a failure of the handler, which perform_state records and turns into
\* the state before; the subprocess is left running.
TrainSync_FailureLeavesTrain(t, ok) ==
  /\ alive
  /\ training # None
  /\ tasks[t].pc = "fn" /\ tasks[t].key = "run_training" /\ tasks[t].i = 1
  /\ executor = "running"
  /\ ~logError
  /\ IF ok
     THEN /\ errors' = errors \ {"run_training", "sync_confusion_matrix"}
          /\ UNCHANGED << training, marker, tasks, training_task >>
     ELSE /\ errors' = errors \cup {"sync_confusion_matrix", "run_training"}
          /\ training' = SetState(training, "TrainModelDownloaded")
          /\ marker' = training'
          /\ TaskStep(t, LoopHead(training'))
  /\ last' = << IF ok THEN "train_sync" ELSE "train_sync_failed", t >>
  /\ UNCHANGED << proc, exec, files, hist >>
  /\ UNCHANGED start
  /\ UNCHANGED others

\* A 5s check without error: errors.reset('run_training') and an opportunistic
\* sync_confusion_matrix, whose failure is recorded and swallowed.
TrainSync(t, ok) ==
  /\ alive
  /\ training # None
  /\ tasks[t].pc = "fn" /\ tasks[t].key = "run_training" /\ tasks[t].i = 1
  /\ executor = "running"
  /\ ~logError
  /\ errors' = IF ok THEN errors \ {"run_training", "sync_confusion_matrix"}
               ELSE (errors \ {"run_training"}) \cup {"sync_confusion_matrix"}
  /\ last' = << IF ok THEN "train_sync" ELSE "train_sync_failed", t >>
  /\ UNCHANGED << proc, training, marker, tasks, training_task, exec, files, hist >>
  /\ UNCHANGED start
  /\ UNCHANGED others

\* ---------------------------------------------------------- _do_detections
\* TrainModelUploaded: perform_state around _do_detections, which first
\* downloads the model and the images.
DispatchDetect(t) ==
  /\ alive
  /\ tasks[t].pc = "sleep"
  /\ training # None
  /\ tasks[t].tstate = "TrainModelUploaded"
  /\ PerformStateBegin(t, [tasks[t] EXCEPT !.i = -1])
  /\ last' = << "dispatch", t >>
  /\ UNCHANGED << proc, errors, exec, files, hist >>
  /\ UNCHANGED start
  /\ UNCHANGED others

\* The images are there: nb batches of at most 200. Without images one empty
\* batch is saved at index 0 and the handler returns.
DetectImages(t, nb) ==
  /\ alive
  /\ training # None
  /\ tasks[t].pc = "fn" /\ tasks[t].key = "detecting" /\ tasks[t].i = -1
  /\ IF nb = 0
     THEN /\ detections' = Max(detections, 1)
          /\ PerformStateSuccess(t, training)
     ELSE /\ tasks' = [tasks EXCEPT ![t].n = nb, ![t].i = 0]
          /\ UNCHANGED << detections, training, marker, errors, training_task >>
  /\ last' = << IF nb = 0 THEN "success" ELSE "detect_images", t >>
  /\ UNCHANGED << proc, exec, model_upload_progress, detection_upload_progress, hist >>
  /\ UNCHANGED start
  /\ UNCHANGED others

\* _detect returned for batch idx: save_detections(batch, idx); idx += 1.
DetectBatch(t) ==
  /\ alive
  /\ training # None
  /\ tasks[t].pc = "fn" /\ tasks[t].key = "detecting" /\ tasks[t].i >= 0
  /\ detections' = Max(detections, tasks[t].i + 1)
  /\ IF tasks[t].i + 1 = tasks[t].n
     THEN PerformStateSuccess(t, training)
     ELSE /\ tasks' = [tasks EXCEPT ![t].i = @ + 1]
          /\ UNCHANGED << training, marker, errors, training_task >>
  /\ last' = << IF tasks[t].i + 1 = tasks[t].n THEN "success" ELSE "detect_batch", t >>
  /\ UNCHANGED << proc, exec, model_upload_progress, detection_upload_progress, hist >>
  /\ UNCHANGED start
  /\ UNCHANGED others

\* --------------------------------------------------------- upload_detetions
\* FirstBatch that ignores the progress file.
FirstBatch_FromZero(progress) == 0

\* First batch index an upload run POSTs: the batches recorded in
\* detection_upload_progress.json are skipped.
FirstBatch(progress) == progress

\* Detected: perform_state around upload_detetions. Nothing left to upload:
\* the handler returns at once.
DispatchUploadDetections(t) ==
  /\ alive
  /\ tasks[t].pc = "sleep"
  /\ training # None
  /\ tasks[t].tstate = "Detected"
  /\ IF FirstBatch(detection_upload_progress) >= detections
     THEN /\ training' = SetState(training, "ReadyForCleanup")
          /\ marker' = training'
          /\ errors' = errors \ {"upload_detections"}
          /\ TaskStep(t, LoopHead(training'))
     ELSE /\ PerformStateBegin(t, [tasks[t] EXCEPT !.n = detections,
                                                  !.i = FirstBatch(detection_upload_progress)])
          /\ UNCHANGED errors
  /\ last' = << IF FirstBatch(detection_upload_progress) >= detections THEN "success" ELSE "dispatch", t >>
  /\ UNCHANGED << proc, exec, files, hist >>
  /\ UNCHANGED start
  /\ UNCHANGED others

\* The loop accepted the POST of batch i.
\* saved: the progress file is advanced (FALSE: the process dies before that).
PostBatch(t, saved) ==
  /\ tasks[t].pc = "fn" /\ tasks[t].key = "upload_detections"
  /\ posted' = Append(posted, tasks[t].i)
  /\ IF saved THEN detection_upload_progress' = tasks[t].i + 1
     ELSE UNCHANGED detection_upload_progress

\* POST of batch i answered with 200: advance the progress, go on with i + 1.
UploadBatch(t) ==
  /\ alive
  /\ training # None
  /\ PostBatch(t, TRUE)
  /\ IF tasks[t].i + 1 >= tasks[t].n
     THEN PerformStateSuccess(t, training)
     ELSE /\ tasks' = [tasks EXCEPT ![t].i = @ + 1]
          /\ UNCHANGED << training, marker, errors, training_task >>
  /\ last' = << IF tasks[t].i + 1 >= tasks[t].n THEN "success" ELSE "upload_batch", t >>
  /\ UNCHANGED << proc, exec, model_upload_progress, detections, uploadCount >>
  /\ UNCHANGED start
  /\ UNCHANGED others

\* ------------------------------------------------------------- upload_model
\* Formats of `files` still to upload, given the formats already recorded.
Pending(n, done) == { f \in 1..n : f \notin done }
NextFormat(n, done) == CHOOSE f \in Pending(n, done) : \A g \in Pending(n, done) : f <= g

\* UploadModelReturn that saves a copy of the training taken before the sync
\* of the confusion matrix.
UploadModelReturn_SavesStaleCopy(t, uuid) ==
  /\ IF uuid = 0
     THEN /\ training' = SetState(training, "ReadyForCleanup")
          /\ UNCHANGED << marker, errors >>
     ELSE /\ training' = [training EXCEPT !.model_id_for_detecting = uuid,
                                          !.training_state = "TrainModelUploaded"]
          /\ marker' = SetState(training', "TrainingFinished")
          /\ errors' = errors \ {"upload_model"}
  /\ TaskStep(t, LoopHead(training'))

\* UploadModelReturn that treats a missing model id as a failed upload.
UploadModelReturn_NoneIsError(t, uuid) ==
  /\ IF uuid = 0
     THEN /\ training' = SetState(training, tasks[t].prev)
          /\ errors' = errors \cup {"upload_model"}
          /\ UNCHANGED marker
     ELSE /\ training' = [training EXCEPT !.model_id_for_detecting = uuid,
                                          !.training_state = "TrainModelUploaded"]
          /\ marker' = training'
          /\ errors' = errors \ {"upload_model"}
  /\ TaskStep(t, LoopHead(training'))

\* upload_model after _upload_model_return_new_model_uuid returned uuid
\* (0: None): None ends the training without upload, a uuid is stored and
\* TrainModelUploaded is persisted.
UploadModelReturn(t, uuid) ==
  /\ IF uuid = 0
     THEN /\ training' = SetState(training, "ReadyForCleanup")
          /\ UNCHANGED << marker, errors >>
     ELSE /\ training' = [training EXCEPT !.model_id_for_detecting = uuid,
                                          !.training_state = "TrainModelUploaded"]
          /\ marker' = training'
          /\ errors' = errors \ {"upload_model"}
  /\ TaskStep(t, LoopHead(training'))

\* ConfusionMatrixSynced: upload_model sets TrainModelUploading and awaits
\* get_latest_model_files (run in the thread pool).
DispatchUploadModel(t) ==
  /\ alive
  /\ tasks[t].pc = "sleep"
  /\ training # None
  /\ tasks[t].tstate = "ConfusionMatrixSynced"
  /\ training' = SetState(training, "TrainModelUploading")
  /\ TaskStep(t, [tasks[t] EXCEPT !.pc = "upload_files", !.key = "upload_model",
                                  !.prev = training.training_state])
  /\ last' = << "dispatch", t >>
  /\ UNCHANGED << proc, marker, errors, exec, files, hist >>
  /\ UNCHANGED start
  /\ UNCHANGED others

\* GotModelFiles that starts from an empty list instead of the recorded formats.
GotModelFiles_NoProgress(t, n) ==
  /\ alive
  /\ training # None
  /\ tasks[t].pc = "upload_files"
  /\ IF n = -1 \/ Pending(n, {}) = {}
     THEN UploadModelReturn(t, 0)
     ELSE /\ tasks' = [tasks EXCEPT ![t].pc = "upload_put", ![t].n = n,
                                    ![t].loaded = {},
                                    ![t].i = NextFormat(n, {})]
          /\ UNCHANGED << training, marker, errors, training_task >>
  /\ last' = << IF n < 1 THEN "no_model_files" ELSE "model_files", t >>
  /\ UNCHANGED << proc, exec, files, hist >>
  /\ UNCHANGED start
  /\ UNCHANGED others

\* get_latest_model_files returned: None (n = -1) or the formats 1..n. The
\* recorded formats are loaded and the first pending format is uploaded.
GotModelFiles(t, n) ==
  /\ alive
  /\ training # None
  /\ tasks[t].pc = "upload_files"
  /\ IF n = -1 \/ Pending(n, model_upload_progress) = {}
     THEN UploadModelReturn(t, 0)
     ELSE /\ tasks' = [tasks EXCEPT ![t].pc = "upload_put", ![t].n = n,
                                    ![t].loaded = model_upload_progress,
                                    ![t].i = NextFormat(n, model_upload_progress)]
          /\ UNCHANGED << training, marker, errors, training_task >>
  /\ last' = << IF n < 1 THEN "no_model_files" ELSE "model_files", t >>
  /\ UNCHANGED << proc, exec, files, hist >>
  /\ UNCHANGED start
  /\ UNCHANGED others

\* The loop accepted the upload of format i of the current training.
\* saved: the format is appended to the progress file (FALSE: the process dies
\* before that).
PutFormat(t, saved) ==
  /\ tasks[t].pc = "upload_put"
  /\ training # None
  /\ uploadCount' = [uploadCount EXCEPT ![training.id][tasks[t].i] = @ + 1]
  /\ IF saved THEN model_upload_progress' = tasks[t].loaded \cup {tasks[t].i}
     ELSE UNCHANGED model_upload_progress

\* upload_model_get_uuid returned a uuid for format i.
UploadFormat(t) ==
  /\ alive
  /\ PutFormat(t, TRUE)
  /\ LET done == tasks[t].loaded \cup {tasks[t].i} IN
     IF Pending(tasks[t].n, done) = {}
     THEN UploadModelReturn(t, tasks[t].i)
     ELSE /\ tasks' = [tasks EXCEPT ![t].loaded = done, ![t].u = tasks[t].i,
                                    ![t].i = NextFormat(tasks[t].n, done)]
          /\ UNCHANGED << training, marker, errors, training_task >>
  /\ last' = << "upload_format", t >>
  /\ UNCHANGED << proc, exec, detections, detection_upload_progress, posted >>
  /\ UNCHANGED start
  /\ UNCHANGED others

\* upload_model_get_uuid returned None for format i.
UploadFormatNone(t) ==
  /\ alive
  /\ tasks[t].pc = "upload_put"
  /\ training # None
  /\ UploadModelReturn(t, 0)
  /\ last' = << "upload_none", t >>
  /\ UNCHANGED << proc, exec, files, hist >>
  /\ UNCHANGED start
  /\ UNCHANGED others

\* UploadModelError that sets the state two places back.
UploadModelError_BackToTrainingFinished(t) ==
  /\ alive
  /\ tasks[t].pc \in {"upload_files", "upload_put"}
  /\ training # None
  /\ errors' = errors \cup {"upload_model"}
  /\ training' = SetState(training, "TrainingFinished")
  /\ TaskStep(t, LoopHead(training'))
  /\ last' = << "upload_error", t >>
  /\ UNCHANGED << proc, marker, exec, files, hist >>
  /\ UNCHANGED start
  /\ UNCHANGED others

\* get_latest_model_files or an upload raised: the error is recorded and the
\* state set back (not persisted).
UploadModelError(t) ==
  /\ alive
  /\ tasks[t].pc \in {"upload_files", "upload_put"}
  /\ training # None
  /\ errors' = errors \cup {"upload_model"}
  /\ training' = SetState(training, tasks[t].prev)
  /\ TaskStep(t, LoopHead(training'))
  /\ last' = << "upload_error", t >>
  /\ UNCHANGED << proc, marker, exec, files, hist >>
  /\ UNCHANGED start
  /\ UNCHANGED others

\* ----------------------------------------------------------- clear_training
\* ClearTrainingBegin that leaves the upload progress in place.
ClearTrainingBegin_KeepsProgress ==
  /\ detections' = 0
  /\ detection_upload_progress' = detection_upload_progress

\* clear_training up to its first await (clear_training_data).
ClearTrainingBegin ==
  /\ detections' = 0
  /\ detection_upload_progress' = 0

\* ReadyForCleanup: clear_training.
DispatchCleanup(t) ==
  /\ alive
  /\ tasks[t].pc = "sleep"
  /\ training # None
  /\ tasks[t].tstate = "ReadyForCleanup"
  /\ ClearTrainingBegin
  /\ tasks' = [tasks EXCEPT ![t].pc = "clear_data"]
  /\ last' = << "dispatch", t >>
  /\ UNCHANGED << proc, training, marker, errors, training_task, exec, model_upload_progress, hist >>
  /\ UNCHANGED start
  /\ UNCHANGED others

\* clear_training_data returned: last_training_io.delete(), await send_status.
ClearData(t) ==
  /\ alive
  /\ tasks[t].pc = "clear_data"
  /\ marker' = None
  /\ tasks' = [tasks EXCEPT ![t].pc = "clear_status"]
  /\ last' = << "clear_data", t >>
  /\ UNCHANGED << proc, training, errors, training_task, exec, files, hist >>
  /\ UNCHANGED start
  /\ UNCHANGED others

\* send_status returned: _training = None; the loop (or run()) ends.
ClearStatus(t) ==
  /\ alive
  /\ tasks[t].pc = "clear_status"
  /\ training' = None
  /\ TaskStep(t, IdleTask)
  /\ last' = << "cleared", t >>
  /\ UNCHANGED << proc, marker, errors, exec, files, hist >>
  /\ UNCHANGED start
  /\ UNCHANGED others

\* ------------------------------------------------------------ stop/shutdown
\* The training task can be cancelled: it exists and is not done.
Cancellable == training_task \in TaskIds

\* RunCancelled without last_training_io.save.
RunCancelled_NoSave(t) ==
  /\ training_task' = -1
  /\ IF shutdown_event
     THEN /\ tasks' = [tasks EXCEPT ![t] = IdleTask]
          /\ UNCHANGED << training, marker, detections, detection_upload_progress >>
     ELSE /\ training' = SetState(training, "ReadyForCleanup")
          /\ UNCHANGED marker
          /\ ClearTrainingBegin
          /\ tasks' = [tasks EXCEPT ![t] = [IdleTask EXCEPT !.pc = "clear_data", !.cancelled = TRUE,
                                                         !.key = tasks[t].key]]

\* run() after the training task was cancelled: unless shutting down, set
\* ReadyForCleanup, persist, and start clear_training.
RunCancelled(t) ==
  /\ training_task' = -1
  /\ IF shutdown_event
     THEN /\ tasks' = [tasks EXCEPT ![t] = IdleTask]
          /\ UNCHANGED << training, marker, detections, detection_upload_progress >>
     ELSE /\ training' = SetState(training, "ReadyForCleanup")
          /\ marker' = training'
          /\ ClearTrainingBegin
          /\ tasks' = [tasks EXCEPT ![t] = [IdleTask EXCEPT !.pc = "clear_data", !.cancelled = TRUE,
                                                         !.key = tasks[t].key]]

\* StopExecutor that goes on to cancel the training task (`if` instead of `elif`).
StopExecutor_AlsoCancels ==
  /\ alive
  /\ training_active
  /\ executor = "running"
  /\ executor' = "idle"
  /\ IF Cancellable
     THEN RunCancelled(training_task)
     ELSE UNCHANGED << training, marker, tasks, training_task, detections, detection_upload_progress >>
  /\ last' = << "stop_executor", 0 >>
  /\ UNCHANGED << proc, errors, logError, model_upload_progress, hist >>
  /\ UNCHANGED start
  /\ UNCHANGED others

\* stop() with a live subprocess: executor.stop(), nothing else.
StopExecutor ==
  /\ alive
  /\ training_active
  /\ executor = "running"
  /\ executor' = "idle"
  /\ last' = << "stop_executor", 0 >>
  /\ UNCHANGED << proc, training, marker, errors, tasks, training_task, logError, files, hist >>
  /\ UNCHANGED start
  /\ UNCHANGED others

\* stop() without a live subprocess: the training task is cancelled.
StopCancel ==
  /\ alive
  /\ training_active
  /\ executor # "running"
  /\ Cancellable
  /\ RunCancelled(training_task)
  /\ last' = << "stop_cancel", training_task >>
  /\ UNCHANGED << proc, errors, exec, model_upload_progress, hist >>
  /\ UNCHANGED start
  /\ UNCHANGED others

\* StopNoop that deletes last_training.json.
StopNoop_DeletesMarker ==
  /\ alive
  /\ ~training_active \/ (executor # "running" /\ ~Cancellable)
  /\ marker' = None
  /\ last' = << "stop_noop", 0 >>
  /\ UNCHANGED << proc, training, errors, tasks, training_task, exec, files, hist >>
  /\ UNCHANGED start
  /\ UNCHANGED others

\* stop() without an active training, or with nothing to stop or cancel.
StopNoop ==
  /\ alive
  /\ ~training_active \/ (executor # "running" /\ ~Cancellable)
  /\ last' = << "stop_noop", 0 >>
  /\ UNCHANGED << proc, training, marker, errors, tasks, training_task, exec, files, hist >>
  /\ UNCHANGED start
  /\ UNCHANGED others

\* Shutdown that calls stop() before it sets the event: run() finds the event
\* unset when the task is cancelled.
Shutdown_StopsBeforeEvent ==
  /\ alive
  /\ ~shutdown_event
  /\ shutdown_event' = TRUE
  /\ executor' = IF training_active /\ executor = "running" THEN "idle" ELSE executor
  /\ IF training_active /\ Cancellable
     THEN RunCancelled(training_task)
     ELSE UNCHANGED << tasks, training_task, training, marker, detections, detection_upload_progress >>
  /\ last' = << "shutdown", 0 >>
  /\ UNCHANGED << alive, kills, nextId, errors, logError, model_upload_progress, hist >>
  /\ UNCHANGED start
  /\ UNCHANGED others

\* shutdown(): set the event and call stop() twice; the first call may only
\* stop the subprocess, the second then cancels the task.
Shutdown ==
  /\ alive
  /\ ~shutdown_event
  /\ shutdown_event' = TRUE
  /\ executor' = IF training_active /\ executor = "running" THEN "idle" ELSE executor
  /\ IF training_active /\ Cancellable
     THEN /\ tasks' = [tasks EXCEPT ![training_task] = IdleTask]
          /\ training_task' = -1
     ELSE UNCHANGED << tasks, training_task >>
  /\ last' = << "shutdown", 0 >>
  /\ UNCHANGED << alive, kills, nextId, training, marker, errors, logError, files, hist >>
  /\ UNCHANGED start
  /\ UNCHANGED others

\* ------------------------------------------------------------ kill/restart
\* The process dies: everything in memory is gone, the files (last_training.log
\* among them) stay.
ProcessDies ==
  /\ alive' = FALSE
  /\ kills' = kills + 1
  /\ training' = None
  /\ errors' = {}
  /\ tasks' = [t \in TaskIds |-> IdleTask]
  /\ training_task' = 0
  /\ executor' = "none"
  /\ UNCHANGED << logError, base_model_json >>
  /\ launched' = "none"
  /\ shutdown_event' = FALSE

Kill ==
  /\ alive
  /\ kills < MaxKills
  /\ ProcessDies
  /\ last' = << "kill", 0 >>
  /\ UNCHANGED << marker, nextId, files, hist >>
  /\ UNCHANGED others

\* The process dies after the loop accepted an upload and before
\* save_model_upload_progress.
KillAfterUploadFormat(t) ==
  /\ alive
  /\ kills < MaxKills
  /\ PutFormat(t, FALSE)
  /\ ProcessDies
  /\ last' = << "kill_after_upload", t >>
  /\ UNCHANGED << marker, nextId, model_upload_progress, detections, detection_upload_progress, posted >>
  /\ UNCHANGED others

\* The process dies after save_model_upload_progress and before upload_model
\* has stored anything else.
KillAfterModelUploadProgress(t) ==
  /\ alive
  /\ kills < MaxKills
  /\ PutFormat(t, TRUE)
  /\ ProcessDies
  /\ last' = << "kill_after_progress", t >>
  /\ UNCHANGED << marker, nextId, detections, detection_upload_progress, posted >>
  /\ UNCHANGED others

\* The process dies after the loop accepted a detection batch and before the
\* progress file is advanced.
KillAfterUploadBatch(t) ==
  /\ alive
  /\ kills < MaxKills
  /\ PostBatch(t, FALSE)
  /\ ProcessDies
  /\ last' = << "kill_after_batch", t >>
  /\ UNCHANGED << marker, nextId, model_upload_progress, detections, detection_upload_progress, uploadCount >>
  /\ UNCHANGED others

\* Node startup: try_continue_run_if_incomplete loads the marker, if there is
\* one, and schedules run().
Startup ==
  /\ ~alive
  /\ alive' = TRUE
  /\ IF ~training_active /\ marker # None
     THEN /\ training' = marker
          /\ tasks' = [tasks EXCEPT ![FreeSlot] = [IdleTask EXCEPT !.pc = "created"]]
     ELSE UNCHANGED << training, tasks >>
  /\ last' = << "startup", 0 >>
  /\ UNCHANGED << kills, nextId, shutdown_event, marker, errors, training_task, exec, files, hist >>
  /\ UNCHANGED start
  /\ UNCHANGED others

\* --------------------------------------------------------- specifications
\* The steps of a run whose handlers succeed, from a state the loop has a
\* branch for.
HandlersAdvance(t) ==
  \/ RunStart(t)
  \/ DispatchPerform(t)
  \/ DispatchTrain(t)
  \/ DispatchDetect(t)
  \/ DispatchUploadDetections(t)
  \/ DispatchUploadModel(t)
  \/ DispatchCleanup(t)
  \/ FnSuccess(t)
  \/ \E stale, resume \in BOOLEAN : TrainStarted(t, stale, resume)
  \/ TrainFinished(t)
  \/ \E nb \in 0..MaxBatches : DetectImages(t, nb)
  \/ DetectBatch(t)
  \/ UploadBatch(t)
  \/ \E n \in -1..MaxFormats : GotModelFiles(t, n)
  \/ UploadFormat(t)
  \/ ClearData(t)
  \/ ClearStatus(t)

\* The steps of a run whose handlers succeed.
HandlersSucceed(t) ==
  \/ HandlersAdvance(t)
  \/ DispatchNoBranch(t)

\* The steps in which a handler fails, or succeeds only in part.
HandlersFail(t) ==
  \/ FnError(t)
  \/ TrainError(t)
  \/ \E ok \in BOOLEAN : TrainSync(t, ok)
  \/ UploadFormatNone(t)
  \/ UploadModelError(t)

TaskNext(t) ==
  \/ HandlersSucceed(t)
  \/ HandlersFail(t)
  \/ KillAfterUploadFormat(t)
  \/ KillAfterModelUploadProgress(t)
  \/ KillAfterUploadBatch(t)

EnvNext ==
  \/ ProcessExit
  \/ ProcessLogsError
  \/ StopExecutor
  \/ StopCancel
  \/ StopNoop
  \/ Shutdown
  \/ Kill
  \/ Startup

\* The loop sends begin_training to an idle trainer only, with the id of one
\* of its models as base model.
Next ==
  \/ BeginTraining(FALSE, "uuid4")
  \/ \E t \in TaskIds : TaskNext(t)
  \/ EnvNext

Spec == Init /\ [][Next]_vars

\* ------------------------------------------------ overlapping begin_training
LivePcs == {"sleep", "fn", "upload_files", "upload_put"}

\* A task resumes after another task has cleared the training: the access to
\* active_training raises, run() logs the exception and ends.
TaskWithoutTraining(t) ==
  /\ alive
  /\ training = None
  /\ tasks[t].pc \in LivePcs
  /\ TaskStep(t, IdleTask)
  /\ last' = << "task_failed", t >>
  /\ UNCHANGED << proc, training, marker, errors, exec, files, hist >>
  /\ UNCHANGED start
  /\ UNCHANGED others

\* begin_training is delivered at any time (at-least-once delivery); the base
\* model is one of the loop in all of them.
NextOverlap ==
  \/ BeginTraining(TRUE, "uuid4")
  \/ \E t \in TaskIds : HandlersSucceed(t) \/ TaskWithoutTraining(t)
  \/ ProcessExit
  \/ StopExecutor
  \/ StopCancel

SpecOverlap == Init /\ [][NextOverlap]_vars

\* ------------------------------------------------------------------ claims
LiveTasks == { t \in TaskIds : tasks[t].pc # "none" }

\* C1: at most one training is active per node: a begin_training event that
\* arrives while a training is active never replaces the active Training
\* record and never leads to two run() tasks existing at once.
C1_OneTrainingAtATime ==
  [][ /\ (training # None => training'.id \in {training.id, 0})
      /\ Cardinality(LiveTasks') <= 1 ]_vars

\* --------------------------------------------------- resume after a kill
\* Runs whose handlers all succeed, with kill and restart. The event loop
\* keeps running the task, the subprocess ends, a killed node is restarted.
NextResume ==
  \/ \E base \in BaseModelIds : BeginTraining(FALSE, base)
  \/ \E t \in TaskIds : HandlersSucceed(t)
  \/ ProcessExit
  \/ Kill
  \/ Startup

SpecResume ==
  /\ Init
  /\ [][NextResume]_vars
  /\ WF_vars(\E t \in TaskIds : HandlersSucceed(t))
  /\ WF_vars(ProcessExit)
  /\ WF_vars(Startup)

\* C2: whatever training state the marker holds when the process is killed,
\* the restarted node loads that Training and, with handlers that succeed,
\* eventually completes the run and clears the training.
C2_ResumeCompletes ==
  (last[1] = "startup" /\ training # None) ~> (training = None)

\* C3: when a handler run by perform_state raises an exception other than
\* cancellation, the error is recorded under the handler's key, the state the
\* training had before the handler started is restored and persisted, the
\* training stays active, and the loop is back at its head with that state,
\* so that its next iteration runs the same handler.
C3_ErrorRollsBackAndRetries ==
  [][ \A t \in TaskIds :
        (tasks[t].pc = "fn" /\ last' = << "error", t >>) =>
          /\ tasks[t].key \in errors'
          /\ training' # None
          /\ training'.training_state = tasks[t].tstate
          /\ marker' = training'
          /\ tasks'[t].pc = "sleep"
          /\ tasks'[t].tstate = tasks[t].tstate
          /\ Handlers[tasks'[t].tstate].key = tasks[t].key ]_vars

\* A download handler has failed: its error is set, the state is back at
\* DataDownloaded and persisted, the task waits for its next iteration.
C3_Witness ==
  \E t \in TaskIds :
    /\ last = << "error", t >>
    /\ tasks[t].pc = "sleep" /\ tasks[t].tstate = "DataDownloaded"
    /\ training.training_state = "DataDownloaded"
    /\ marker = training
    /\ "download_model" \in errors

\* C4: perform_state sets and persists the transitioning state before fn is
\* awaited, and when fn returns it sets the completed state, persists it and
\* clears the error of its key; the persisted Training then equals the
\* in-memory Training.
C4_TransitioningThenCompleted ==
  [][ \A t \in TaskIds :
        (tasks[t].pc = "fn" /\ last' = << "success", t >>) =>
          LET h == Handlers[tasks[t].tstate] IN
          /\ training.training_state = h.during
          /\ marker.training_state = h.during
          /\ training'.training_state = h.after
          /\ marker' = training'
          /\ h.key \notin errors' ]_vars

\* _prepare has returned: DataDownloaded is set and persisted together with
\* the downloaded image data.
C4_Witness ==
  \E t \in TaskIds :
    /\ last = << "success", t >>
    /\ training.training_state = "DataDownloaded"
    /\ training.data
    /\ marker = training
    /\ "prepare" \notin errors

\* C5: when stop() cancels the training task and no shutdown was requested,
\* run() sets ReadyForCleanup, persists it and starts clear_training; when
\* that clear_training has finished no training is active and the marker does
\* not exist.
C5_CancelCleansUp ==
  [][ \A t \in TaskIds :
        /\ (last' = << "stop_cancel", t >> /\ training_task = t /\ ~shutdown_event) =>
             /\ training'.training_state = "ReadyForCleanup"
             /\ marker' = training'
             /\ tasks'[t].pc = "clear_data"
             /\ tasks'[t].cancelled
        /\ (tasks[t].cancelled /\ last' = << "cleared", t >>) =>
             /\ training' = None
             /\ marker' = None ]_vars

\* stop() has cancelled the task inside _download_model.
C5_Witness ==
  \E t \in TaskIds :
    /\ last = << "stop_cancel", t >>
    /\ tasks[t].cancelled /\ tasks[t].key = "download_model"
    /\ tasks[t].pc = "clear_data"
    /\ training.training_state = "ReadyForCleanup"
    /\ marker = training

StopOps == {"stop_executor", "stop_cancel", "stop_noop"}

C7_MarkerFollowsEveryStateChange ==
  [][ \A t \in TaskIds :
        (last'[2] = t /\ tasks'[t].pc = "sleep" /\ marker' # None) =>
          marker'.training_state = training'.training_state ]_vars

\* C8: from begin_training until clear_training deletes it, the marker
\* exists while a training is active.
C8_MarkerExistsWhileActive ==
  (training # None /\ \A t \in TaskIds : tasks[t].pc # "clear_status") => marker # None

\* C9 (as claimed): each model format of a training is uploaded at most once.
C9_EachFormatAtMostOnce ==
  \A id \in 1..MaxTrainings : \A f \in 1..MaxFormats : uploadCount[id][f] <= 1

\* C9 (amended): an upload is made only for the current training and only for
\* a format not recorded in model_upload_progress.json, and the format is
\* recorded right after its upload unless the process dies in between; every
\* recorded format has been uploaded.
C9_RecordedFormatsNotUploadedAgain ==
  [][ \A id \in 1..MaxTrainings : \A f \in 1..MaxFormats :
        /\ uploadCount'[id][f] # uploadCount[id][f] =>
             /\ training.id = id
             /\ f \notin model_upload_progress
             /\ alive' => f \in model_upload_progress'
        /\ (training'.id = id /\ f \in model_upload_progress') => uploadCount'[id][f] >= 1 ]_vars

\* A re-run of upload_model has skipped format 1, recorded by an earlier run,
\* and uploads format 2.
C9_Witness ==
  \E t \in TaskIds :
    /\ tasks[t].pc = "upload_put"
    /\ tasks[t].i = 2 /\ tasks[t].u = 0
    /\ model_upload_progress = {1}
    /\ uploadCount[training.id][1] = 1

\* C10: every POST of upload_detections sends the batch that follows the
\* batches recorded as uploaded and then advances the progress file by one,
\* so that batches go out in ascending index order and a run after a failure
\* or a restart skips the recorded batches and POSTs only the remaining ones.
C10_BatchesInOrderFromProgress ==
  [][ Len(posted') > Len(posted) =>
        /\ posted' = Append(posted, detection_upload_progress)
        /\ detection_upload_progress < detections
        /\ alive' => detection_upload_progress' = detection_upload_progress + 1
        /\ \A k \in 1..Len(posted) : posted[k] <= detection_upload_progress ]_vars

\* After a restart the upload is dispatched with batch 0 of two recorded as
\* uploaded: it starts at batch 1.
C10_Witness ==
  \E t \in TaskIds :
    /\ last = << "dispatch", t >>
    /\ kills = 1 /\ errors = {}
    /\ tasks[t].pc = "fn" /\ tasks[t].key = "upload_detections"
    /\ tasks[t].i = 1 /\ tasks[t].n = 2
    /\ posted = << 0 >>

\* ------------------------------------------------- handlers that fail and retry
\* Runs in which the handlers run by perform_state may raise, left alone by
\* stop, shutdown and kill. The event loop keeps running the tasks, and a
\* handler that is tried again and again does not fail for ever.
NextRetry ==
  \/ \E base \in BaseModelIds : BeginTraining(FALSE, base)
  \/ \E t \in TaskIds : HandlersAdvance(t) \/ FnError(t)
  \/ ProcessExit

SpecRetry ==
  /\ Init
  /\ [][NextRetry]_vars
  /\ WF_vars(\E t \in TaskIds : RunStart(t))
  /\ WF_vars(\E t \in TaskIds : DispatchPerform(t))
  /\ SF_vars(\E t \in TaskIds : FnSuccess(t))

\* C11: while _prepare is awaited the state is DataDownloading; each failure
\* sets the error 'prepare' and puts the state back to Initialized, from where
\* the loop alone starts _prepare again with the error still set; the success
\* sets DataDownloaded and clears the error; and if _prepare does not fail for
\* ever, a training in Initialized reaches DataDownloaded.
C11_PrepareRetriesUntilSuccess ==
  /\ [][ \A t \in TaskIds :
           (tasks[t].pc = "fn" /\ tasks[t].key = "prepare") =>
             /\ training.training_state = "DataDownloading"
             /\ last' = << "error", t >> =>
                  /\ training'.training_state = "Initialized"
                  /\ "prepare" \in errors'
                  /\ tasks'[t].pc = "sleep" /\ tasks'[t].tstate = "Initialized"
             /\ last' = << "success", t >> =>
                  /\ training'.training_state = "DataDownloaded"
                  /\ "prepare" \notin errors' ]_vars
  /\ [][ (training.training_state = "Initialized" /\ "prepare" \in errors) =>
           /\ training'.training_state \in {"Initialized", "DataDownloading"}
           /\ "prepare" \in errors' ]_vars
  /\ (training.training_state = "Initialized") ~> (training.training_state = "DataDownloaded")

\* _prepare has failed and is awaited again: DataDownloading with the error
\* 'prepare' still set.
C11_Witness ==
  \E t \in TaskIds :
    /\ last = << "dispatch", t >>
    /\ tasks[t].pc = "fn" /\ tasks[t].key = "prepare"
    /\ training.training_state = "DataDownloading"
    /\ "prepare" \in errors

\* C12: once get_executor_error_from_log() returns a text during the
\* supervision of the subprocess, _train leaves the supervision for the loop
\* head only through the error path: the subprocess is not running afterwards,
\* the error 'run_training' is set, the state is TrainModelDownloaded again
\* (persisted), and the loop is at the branch that runs _train again.
C12_LogErrorStopsAndRetries ==
  [][ \A t \in TaskIds :
        ( /\ tasks[t].pc = "fn" /\ tasks[t].key = "run_training" /\ tasks[t].i = 1
          /\ logError
          /\ tasks'[t].pc = "sleep" ) =>
          /\ training.training_state = "TrainingRunning"
          /\ last' = << "error", t >>
          /\ executor' # "running"
          /\ "run_training" \in errors'
          /\ training'.training_state = "TrainModelDownloaded"
          /\ marker' = training'
          /\ tasks'[t].tstate = "TrainModelDownloaded"
          /\ Handlers[tasks'[t].tstate].key = "run_training" ]_vars

\* The log error was found: the subprocess is stopped, 'run_training' is set
\* and the task waits at the loop head with TrainModelDownloaded.
C12_Witness ==
  \E t \in TaskIds :
    /\ last = << "error", t >>
    /\ logError
    /\ executor = "idle"
    /\ "run_training" \in errors
    /\ training.training_state = "TrainModelDownloaded"
    /\ marker = training
    /\ tasks[t].pc = "sleep" /\ tasks[t].tstate = "TrainModelDownloaded"

\* ------------------------------------------------------ base model selection
StartHooks == {"start_training", "start_training_from_scratch"}

\* C13: with a base_model_id that is neither a uuid4 nor the name of a
\* provided pretrained model, the attempt to start the training ends with
\* neither start_training nor start_training_from_scratch having launched a
\* subprocess and with the error 'start_training' set.
C13_UnknownBaseModelIsNotStarted ==
  [][ \A t \in TaskIds :
        ( /\ training.base_model_id = "unknown"
          /\ tasks[t].pc = "fn" /\ tasks[t].key = "run_training" /\ tasks[t].i = 0
          /\ last' \in { << "train_started", t >>, << "error", t >> } ) =>
          /\ launched' \notin StartHooks
          /\ executor' # "running"
          /\ "start_training" \in errors' ]_vars

NodeStates == {"Offline", "Idle", "Preparing", "Running", "Stopping", "Uploading", "Detecting"}

Top(w) == Head(w.s)
SetTop(w, f) == [w EXCEPT !.s = << f >> \o Tail(w.s)]
Await(w, pc) == [SetTop(w, [Top(w) EXCEPT !.pc = pc]) EXCEPT !.wait = TRUE]
Call(w, cont, f) == [w EXCEPT !.s = << f, [Top(w) EXCEPT !.pc = cont] >> \o Tail(w.s)]
Return(w, val) == [w EXCEPT !.s = Tail(w.s), !.ret = val, !.wait = (Len(w.s) = 1)]
Emit(w, e) == [w EXCEPT !.n.ev = Append(@, e)]
set_error(w, key) == [w EXCEPT !.n.errors = @ \cup {key}]
reset_error(w, key) == [w EXCEPT !.n.errors = @ \ {key}]

\* Node.update_state: set the state and send the status (no state set by
\* TrainerNode is Offline); the caller goes on at cont.
update_state(w, state, cont) ==
  Call([w EXCEPT !.n.state = state], cont, Frame("send_status"))

\* The calls of stop_training between try and except (lines 84-107), and of
\* try_get_new_model (164-190): where the caller stands while they run.
StopTryPcs == {"uploading", "saved", "detecting", "idle", "final"}

\* stop_training, lines 107-110: the except branch.
StopExcept(w) ==
  Call(Emit(set_error(w, "stop_training"), "stop_failed"), "failed", Frame("send_status"))

\* An exception leaves the innermost call: the except branch of stop_training
\* takes it if the call was made inside its try; none of the other callers
\* catches. One that leaves the outermost call ends the coroutine (asyncio
\* logs it for a task, the wrapper of check_state logs it).
RECURSIVE Raise(_)
Raise(w) ==
  LET up == [w EXCEPT !.s = Tail(w.s)]
  IN IF Len(w.s) = 1 THEN [Emit(up, "raised") EXCEPT !.wait = TRUE]
     ELSE IF Top(up).fn = "stop_training" /\ Top(up).pc \in StopTryPcs THEN StopExcept(up)
     ELSE Raise(up)

\* send_status that raises when the loop rejects the status, as Node.send_status
\* (node.py, lines 174-183) does.
send_status_RaisesOnRejection(w) ==
  LET f == Top(w)
  IN CASE f.pc = "start" ->
            IF w.n.training = "nodata" THEN Raise(w)
            ELSE Await(SetTop(w, [f EXCEPT !.state = w.n.state]), "update_trainer")
       [] f.pc = "accepted" -> Return(w, TRUE)
       [] f.pc = "rejected" -> Raise(Emit(w, "rejected"))
       [] f.pc = "after_stop" -> Return(w, TRUE)

\* send_status, lines 197-229. The status holds the state of the moment it was
\* built; training.data is None until the download is done.
send_status(w) ==
  LET f == Top(w)
  IN CASE f.pc = "start" ->
            IF w.n.training = "nodata" THEN Raise(w)
            ELSE Await(SetTop(w, [f EXCEPT !.state = w.n.state]), "update_trainer")
       [] f.pc = "accepted" -> Return(w, TRUE)
       [] f.pc = "rejected" ->
            IF f.state # "Idle"
            THEN Call(Emit(w, "rejected"), "after_stop",
                      [Frame("stop_training") EXCEPT !.save_and_detect = FALSE])
            ELSE Return(w, TRUE)
       [] f.pc = "after_stop" -> Return(w, TRUE)

\* stop_training, line 98: the folder of the training is read, then the data
\* are cleared.
StopClear(w) ==
  IF w.n.training = "none" THEN StopExcept(w)
  ELSE Await(reset_error(w, "clear_training_data"), "clear_training_data")

\* Trainer.stop_training, lines 77-85; Executor.stop on an executor that was
\* never started fails on process, which is None.
stop_training(w) ==
  LET f == Top(w)
  IN CASE f.pc = "start" ->
            IF w.n.state # "Running" THEN Return(Emit(w, "stop_ignored"), TRUE)
            ELSE update_state(Emit(w, "stopping"), "Stopping", "stopped")
       [] f.pc = "stopped" ->
            IF w.n.executor = "created" THEN StopExcept(w)
            ELSE LET w1 == SetTop([w EXCEPT !.n.executor = "none"],
                                  [f EXCEPT !.result = (w.n.executor # "none")])
                 IN IF w.n.model_published /\ f.save_and_detect
                    THEN update_state(w1, "Uploading", "uploading")
                    ELSE StopClear(w1)
       [] f.pc = "uploading" ->
            IF w.n.training = "none" THEN StopExcept(w)
            ELSE Call(w, "saved", Frame("save_model"))
       [] f.pc = "saved" ->
            update_state(SetTop(w, [f EXCEPT !.uploaded_model = w.ret]), "Detecting", "detecting")
       [] f.pc = "detecting" ->
            IF f.uploaded_model /\ w.n.training # "none" THEN Await(Emit(w, "detect"), "do_detections")
            ELSE StopClear(w)
       [] f.pc = "detected" -> StopClear(w)
       [] f.pc = "cleared" ->
            update_state(Emit([w EXCEPT !.n.training = "none", !.n.model_published = FALSE],
                              "cleared"), "Idle", "idle")
       [] f.pc = "idle" ->
            IF ~f.result THEN StopExcept(w)
            ELSE Call([w EXCEPT !.n.errors = {}], "final", Frame("send_status"))
       [] f.pc = "final" -> Return(w, TRUE)
       [] f.pc = "failed" -> Return(w, FALSE)

\* save_model without its try/except: what Trainer.save_model raises leaves it.
save_model_Raises(w) ==
  LET f == Top(w)
  IN CASE f.pc = "start" -> Await(Emit(reset_error(w, "save_model"), "upload"), "save_model")
       [] f.pc = "saved" -> Call(w, "sent", Frame("send_status"))
       [] f.pc = "failed" -> Raise(w)
       [] f.pc = "sent" -> Return(w, f.uploaded_model)

\* save_model, lines 113-123.
save_model(w) ==
  LET f == Top(w)
  IN CASE f.pc = "start" -> Await(Emit(reset_error(w, "save_model"), "upload"), "save_model")
       [] f.pc = "saved" -> Call(w, "sent", Frame("send_status"))
       [] f.pc = "failed" -> Call(set_error(w, "save_model"), "sent", Frame("send_status"))
       [] f.pc = "sent" -> Return(w, f.uploaded_model)

\* begin_training, lines 68-74: the except branch. Trainer.stop_training is not
\* awaited and not guarded: what it raises leaves begin_training.
BeginExcept(w) ==
  LET w1 == Emit(set_error(w, "start_training"), "begin_failed")
  IN IF w.n.executor = "created" THEN Raise(w1)
     ELSE update_state([w1 EXCEPT !.n.executor = "none"], "Idle", "done")

\* begin_training, lines 63-75, with Trainer.begin_training, lines 39-69.
begin_training(w) ==
  LET f == Top(w)
  IN CASE f.pc = "start" -> update_state(reset_error(w, "start_training"), "Preparing", "prepared")
       [] f.pc = "prepared" -> Await([w EXCEPT !.n.training = "nodata"], "download_training_data")
       [] f.pc = "download_failed" -> BeginExcept(w)
       [] f.pc = "downloaded" ->
            LET w1 == [w EXCEPT !.n.training = "ready", !.n.executor = "created"]
            IN IF is_valid_uuid4(f.base_model_id) THEN Await(w1, "download_model")
               ELSE IF f.base_model_id = "pretrained" THEN Await(w1, "start_training")
               ELSE BeginExcept(w1)
       [] f.pc = "model_failed" -> BeginExcept(w)
       [] f.pc = "model_downloaded" -> Await(w, "start_training")
       [] f.pc = "start_failed" -> BeginExcept(w)
       [] f.pc = "started" ->
            update_state(Emit([w EXCEPT !.n.executor = "running"], "started"), "Running", "done")
       [] f.pc = "done" -> Return(w, TRUE)

\* check_state, lines 152-157: the subprocess is gone while the node is Running.
CheckCrashed_OnlyReported(w) ==
  Call(Emit(set_error(w, "training_error"), "crashed"), "sent", Frame("send_status"))

CheckCrashed(w) ==
  Call(Emit(set_error(w, "training_error"), "crashed"), "stop_done", Frame("stop_training"))

\* check_state, lines 133-159, with try_get_new_model, lines 161-195. error is
\* what Trainer.get_error returns, model what Trainer.get_new_model returns.
check_state(w) ==
  LET f == Top(w)
      w0 == reset_error(w, "training_error")
  IN CASE f.pc = "start" ->
            IF f.error
            THEN Call(set_error(w0, "training_error"), "stop_done", Frame("stop_training"))
            ELSE IF w.n.state # "Running" THEN Return(w0, TRUE)
            ELSE IF w.n.executor = "none" THEN Raise(w0)
            ELSE IF w.n.executor # "running" THEN CheckCrashed(w0)
            ELSE IF w.n.training # "none" /\ f.model
            THEN Await(reset_error(w0, "get_new_model"), "update_training")
            ELSE Call(reset_error(w0, "get_new_model"), "sent", Frame("send_status"))
       [] f.pc = "stop_done" -> Call(w, "sent", Frame("send_status"))
       [] f.pc = "updated" ->
            Call([w EXCEPT !.n.model_published = TRUE], "sent", Frame("send_status"))
       [] f.pc = "update_rejected" ->
            Call(set_error(w, "get_new_model"), "sent", Frame("send_status"))
       [] f.pc = "sent" -> Return(w, TRUE)

\* Node.on_connect (node.py, lines 114-118): reset() makes a new status, the
\* trainer is left as it is.
on_connect(w) ==
  LET f == Top(w)
  IN CASE f.pc = "start" -> update_state([w EXCEPT !.n.errors = {}], "Idle", "done")
       [] f.pc = "done" -> Return(w, TRUE)

\* One step of the innermost call, and the run of a coroutine up to its next
\* await or its end (x ranges over one world: the step is taken once).
StepNode(w) ==
  LET fn == Top(w).fn
  IN CASE fn = "send_status" -> send_status(w)
       [] fn = "stop_training" -> stop_training(w)
       [] fn = "save_model" -> save_model(w)
       [] fn = "begin_training" -> begin_training(w)
       [] fn = "check_state" -> check_state(w)
       [] fn = "on_connect" -> on_connect(w)

RECURSIVE RunNode(_)
RunNode(w) ==
  IF w.wait THEN w ELSE CHOOSE r \in { RunNode(x) : x \in {StepNode(w)} } : TRUE

\* ----------------------------------------------- TrainerNode: events, answers
\* Coroutine k runs with the calls s until it awaits or ends.
\* An event of the loop or the timer starts coroutine k.
NodeStart(k, f, name) ==
  /\ node.events < MaxNodeEvents
  /\ stacks[k] = << >>
  /\ \E r \in { RunNode([n |-> [node EXCEPT !.ev = << >>, !.events = @ + 1], s |-> << f >>,
                           wait |-> FALSE, ret |-> FALSE]) } :
       /\ node' = r.n
       /\ stacks' = [stacks EXCEPT ![k] = r.s]
  /\ last' = << name, 0 >>
  /\ UNCHANGED << logic, aside >>

NodeRun(k, s, name) ==
  /\ \E r \in { RunNode([n |-> [node EXCEPT !.ev = << >>], s |-> s, wait |-> FALSE,
                           ret |-> FALSE]) } :
       /\ node' = r.n
       /\ stacks' = [stacks EXCEPT ![k] = r.s]
  /\ last' = << name, 0 >>
  /\ UNCHANGED << logic, aside >>

\* What coroutine k awaits at pc is there: its innermost call goes on at to.
Awaits(k, pc) == stacks[k] # << >> /\ Head(stacks[k]).pc = pc
Resume(k, to) == << [Head(stacks[k]) EXCEPT !.pc = to] >> \o Tail(stacks[k])

\* The event channel connects (sio 'connect').
NodeConnect ==
  /\ node.state = "Offline"
  /\ stacks["connect"] = << >>
  /\ NodeRun("connect", << Frame("on_connect") >>, "on_connect")

\* The loop sends begin_training to an idle trainer (on_begin_training, lines
\* 31-35, creates the task).
OnBeginTraining(base) ==
  /\ node.state = "Idle"
  /\ NodeStart("begin", [Frame("begin_training") EXCEPT !.base_model_id = base], "begin_training")

\* The loop sends stop_training (lines 37-42).
OnStopTraining ==
  /\ node.state # "Offline"
  /\ NodeStart("stop", Frame("stop_training"), "stop_training")

\* The periodic check_state (lines 44-52): the next one starts when the last
\* one is done.
CheckStateTick(error, model) ==
  /\ node.state # "Offline"
  /\ error => node.executor \in {"running", "exited"}
  /\ NodeStart("check", [Frame("check_state") EXCEPT !.error = error, !.model = model],
               "check_state")

\* The loop answers update_trainer.
UpdateTrainerAnswered(k, success) ==
  /\ Awaits(k, "update_trainer")
  /\ NodeRun(k, Resume(k, IF success THEN "accepted" ELSE "rejected"), "update_trainer")

\* Trainer.save_model returns the uploaded model, or raises.
SaveModelDone(k, ok) ==
  /\ Awaits(k, "save_model")
  /\ NodeRun(k, << [Head(stacks[k]) EXCEPT !.pc = IF ok THEN "saved" ELSE "failed",
                                           !.uploaded_model = ok] >> \o Tail(stacks[k]),
             "save_model")

\* Trainer.do_detections returns; what it raises is logged (lines 92-96).
DetectionsDone(k) ==
  /\ Awaits(k, "do_detections")
  /\ NodeRun(k, Resume(k, "detected"), "do_detections")

\* clear_training_data, lines 125-131, is done; what the hook raises is kept as
\* an error.
TrainingDataCleared(k, ok) ==
  /\ Awaits(k, "clear_training_data")
  /\ \E r \in { RunNode([n |-> [node EXCEPT !.ev = << >>,
                                              !.errors = IF ok THEN @
                                                         ELSE @ \cup {"clear_training_data"}],
                           s |-> Resume(k, "cleared"), wait |-> FALSE, ret |-> FALSE]) } :
       /\ node' = r.n
       /\ stacks' = [stacks EXCEPT ![k] = r.s]
  /\ last' = << "clear_training_data", 0 >>
  /\ UNCHANGED << logic, aside >>

\* Trainer.begin_training: the downloads and the start hook return or raise.
TrainingDataDownloaded(ok) ==
  /\ Awaits("begin", "download_training_data")
  /\ NodeRun("begin", Resume("begin", IF ok THEN "downloaded" ELSE "download_failed"),
             "download_training_data")

BaseModelDownloaded(ok) ==
  /\ Awaits("begin", "download_model")
  /\ NodeRun("begin", Resume("begin", IF ok THEN "model_downloaded" ELSE "model_failed"),
             "download_model")

TrainingStarted(ok) ==
  /\ Awaits("begin", "start_training")
  /\ NodeRun("begin", Resume("begin", IF ok THEN "started" ELSE "start_failed"),
             "start_training")

\* The loop answers update_training (try_get_new_model, lines 178-188).
TrainingUpdated(success) ==
  /\ Awaits("check", "update_training")
  /\ NodeRun("check", Resume("check", IF success THEN "updated" ELSE "update_rejected"),
             "update_training")

\* The training subprocess of the node ends by itself.
NodeProcessExit ==
  /\ node.executor = "running"
  /\ node' = [node EXCEPT !.executor = "exited", !.ev = << >>]
  /\ last' = << "process_exit", 0 >>
  /\ UNCHANGED << stacks, logic, aside >>

NextNode ==
  \/ NodeConnect
  \/ \E base \in BaseModelIds : OnBeginTraining(base)
  \/ OnStopTraining
  \/ \E error, model \in BOOLEAN : CheckStateTick(error, model)
  \/ \E k \in NodeTasks, success \in BOOLEAN : UpdateTrainerAnswered(k, success)
  \/ \E k \in NodeTasks, ok \in BOOLEAN : SaveModelDone(k, ok)
  \/ \E k \in NodeTasks : DetectionsDone(k)
  \/ \E k \in NodeTasks, ok \in BOOLEAN : TrainingDataCleared(k, ok)
  \/ \E ok \in BOOLEAN : TrainingDataDownloaded(ok)
  \/ \E ok \in BOOLEAN : BaseModelDownloaded(ok)
  \/ \E ok \in BOOLEAN : TrainingStarted(ok)
  \/ \E success \in BOOLEAN : TrainingUpdated(success)
  \/ NodeProcessExit

SpecNode == Init /\ [][NextNode]_vars

\* The loop answers every call and the hooks of the trainer return: a
\* coroutine that awaits one of them goes on.
Answered(k) ==
  \/ \E success \in BOOLEAN : UpdateTrainerAnswered(k, success)
  \/ \E ok \in BOOLEAN : SaveModelDone(k, ok)
  \/ DetectionsDone(k)
  \/ \E ok \in BOOLEAN : TrainingDataCleared(k, ok)

SpecNodeFair == SpecNode /\ \A k \in NodeTasks : WF_vars(Answered(k))

\* The last step of a coroutine did e.
Did(e) == \E i \in DOMAIN node.ev : node.ev[i] = e

\* Coroutine k is inside a stop_training that stands at one of pcs.
StopAt(k, pcs) ==
  \E i \in DOMAIN stacks[k] : stacks[k][i].fn = "stop_training" /\ stacks[k][i].pc \in pcs

\* ---------------------------------------------------- rejected status (C15)
\* C15: whenever the loop answers update_trainer with success=false for a
\* status sent in a state other than Idle, and the node is not Idle, the
\* training is stopped: the stop_training(save_and_detect=false) that
\* send_status calls does not return without doing anything.
C15_RejectedStatusStopsTraining ==
  [][ (Did("rejected")' /\ node.state # "Idle")
        => (~Did("stop_ignored")' /\ node'.state = "Stopping") ]_vars

\* --------------------------------------------------- crashed subprocess (C16)
\* check_state called stop_training() because the subprocess was gone, and
\* that call has not yet cleared the training.
CrashStopPcs ==
  {"stopped", "uploading", "saved", "detecting", "do_detections", "detected",
   "clear_training_data", "cleared"}

CrashStop(pcs) ==
  /\ stacks["check"] # << >>
  /\ LET f == stacks["check"][Len(stacks["check"])]
     IN f.fn = "check_state" /\ f.pc = "stop_done" /\ ~f.error
  /\ StopAt("check", pcs)

Ord(state) == CHOOSE i \in 1..Len(States) : States[i] = state

\* The states a handler sets while it runs.
Transitional ==
  { Handlers[s].during : s \in DOMAIN Handlers } \cup {"TrainModelUploading"}

\* The steps in which a handler ends with an error.
HandlerErrors == {"error", "upload_error"}

\* The training_state of one Training is read before and after a step.
StateChanged ==
  /\ training # None
  /\ training' # None
  /\ training'.id = training.id
  /\ training'.training_state # training.training_state

\* C17: every change of training.training_state moves forward in the order of
\* TrainingState, or, at the error of a handler, from a transitional state
\* back to the state just before it.
C17_ForwardOrOneStepBack ==
  [][ StateChanged
        => \/ Ord(training'.training_state) > Ord(training.training_state)
           \/ /\ Ord(training'.training_state) = Ord(training.training_state) - 1
              /\ training.training_state \in Transitional
              /\ last'[1] \in HandlerErrors ]_vars

\* upload_model has failed and set the state back from TrainModelUploading.
C17_Witness ==
  /\ last[1] = "upload_error"
  /\ training # None
  /\ training.training_state = "ConfusionMatrixSynced"
  /\ "upload_model" \in errors

\* ------------------------------------------ the stored state never falls (C18)
\* Task t comes back from a handler to the head of the state loop, and the
\* handler has not ended with an error.
HandlerSucceeded(t) ==
  /\ tasks[t].pc \notin {"none", "created", "sleep"}
  /\ tasks'[t].pc = "sleep"
  /\ last'[1] \notin HandlerErrors

\* C18: after every handler that completes successfully the state stored in
\* last_training.json is at least the state stored before the handler
\* started: no step but the error of a handler lowers the stored state of a
\* training, and when a handler has succeeded the stored state is at least the
\* state the handler started from.
C18_StoredStateNeverFalls ==
  /\ [][ (marker # None /\ marker' # None /\ marker'.id = marker.id
          /\ last'[1] \notin HandlerErrors)
           => Ord(marker'.training_state) >= Ord(marker.training_state) ]_vars
  /\ [][ \A t \in TaskIds :
           (HandlerSucceeded(t) /\ marker' # None)
             => Ord(marker'.training_state) >= Ord(tasks[t].prev) ]_vars

\* upload_model has succeeded: TrainModelUploaded is stored.
C18_Witness ==
  /\ last[1] = "upload_format"
  /\ tasks[last[2]].pc = "sleep"
  /\ marker # None
  /\ marker.training_state = "TrainModelUploaded"

\* ------------------------------------------------------ stop() twice (C19)
\* What stop() may touch: the training, the marker, the subprocess and the
\* tasks.
stopped == << training, marker, executor, tasks, training_task >>

\* C19 (as claimed): stop() changes nothing when no training is active, and a
\* stop() that follows a stop() at once changes nothing: two calls leave
\* training, marker, executor and training task as one call does.
C19_StopTwiceIsStopOnce ==
  [][ /\ (last'[1] \in StopOps /\ ~training_active) => UNCHANGED stopped
      /\ (last[1] \in StopOps /\ last'[1] \in StopOps) => UNCHANGED stopped ]_vars

\* C19 (amended): stop() changes nothing when no training is active, and a
\* stop() that follows at once a stop() which cancelled the task or did
\* nothing changes nothing; a stop() that follows a stop() which stopped the
\* subprocess cancels the training task.
C19_StopTwiceUnlessExecutorStopped ==
  [][ /\ (last'[1] \in StopOps /\ ~training_active) => UNCHANGED stopped
      /\ (last[1] \in {"stop_cancel", "stop_noop"} /\ last'[1] \in StopOps) => UNCHANGED stopped
      /\ (last[1] = "stop_executor" /\ last'[1] \in StopOps /\ Cancellable)
           => /\ last'[1] = "stop_cancel"
              /\ training_task' = -1
              /\ executor' = executor ]_vars

\* A stop() found the training task already cancelled and did nothing.
C19_Witness ==
  /\ last[1] = "stop_noop"
  /\ training_active
  /\ training.training_state = "ReadyForCleanup"
  /\ training_task = -1
  /\ \E t \in TaskIds : tasks[t].cancelled

\* --------------------------------------------------- after clear_training (C20)
\* C20: when clear_training of a training in ReadyForCleanup completes, no
\* training is active, last_training.json does not exist, and the stored
\* detections and the detection upload progress do not exist.
C20_ClearTrainingLeavesNothing ==
  [][ \A t \in TaskIds :
        (last' = << "cleared", t >> /\ training.training_state = "ReadyForCleanup")
          => /\ training' = None
             /\ ~training_active'
             /\ marker' = None
             /\ detections' = 0
             /\ detection_upload_progress' = 0 ]_vars

\* clear_training has completed for a training that had detections stored and
\* uploaded.
C20_Witness ==
  /\ last[1] = "cleared"
  /\ training = None
  /\ marker = None
  /\ detections = 0 /\ detection_upload_progress = 0
  /\ Len(posted) > 0

\* ------------------------------------------------ DetectorNode: category ids
SeqsUpTo(S, n) == UNION { [1..k -> S] : k \in 0..n }

\* ModelInformation.categories: Category(id, name).
CategoryIds == {"id1", "id2"}
CategoryNames == {"cat", "dog"}
Category == [id : CategoryIds, name : CategoryNames]

\* What Detector.evaluate returns: a detection has the name of its category;
\* its category_id is '' unless the detector has filled it in. "bird" is the
\* name of no category.
DetectionKinds == {"box_detections", "point_detections", "segmentation_detections"}
Detection == [category_name : CategoryNames \cup {"bird"}, category_id : {"", "id2"}]

\* Detections: the three lists, in the order the detector returned them.
Detections(found) ==
  [k \in DetectionKinds |->
     LET of_kind == SelectSeq(found, LAMBDA d : d[1] = k)
     IN [i \in 1..Len(of_kind) |-> of_kind[i][2]]]

\* add_category_id_to_detections, lines 219-221.
find_category_id_by_name(categories, category_name) ==
  LET category_id == SelectSeq(categories, LAMBDA category : category.name = category_name)
  IN IF category_id # << >> THEN category_id[1].id ELSE ""

\* add_category_id_to_detections, lines 223-231.
add_category_id_to_detections(categories, dets) ==
  [k \in DetectionKinds |->
     IF k \in {"box_detections", "point_detections"}
     THEN [i \in 1..Len(dets[k]) |->
             [dets[k][i] EXCEPT
                !.category_id = find_category_id_by_name(categories, dets[k][i].category_name)]]
     ELSE dets[k]]

\* A detector node with a model, and the detections of its detector for one
\* image.
InitDetector ==
  /\ InitTrainer
  /\ InitAside("detector")
  /\ \E categories \in SeqsUpTo(Category, MaxCategories),
        found \in SeqsUpTo(DetectionKinds \X Detection, MaxDetections) :
       detector = [categories |-> categories, detections |-> Detections(found),
                   evaluated |-> FALSE]

\* get_detections, lines 201-211: the detections go out with the ids added.
GetDetections ==
  /\ ~detector.evaluated
  /\ detector' = [detector EXCEPT
                    !.detections = add_category_id_to_detections(detector.categories, @),
                    !.evaluated = TRUE]
  /\ last' = << "get_detections", 0 >>
  /\ UNCHANGED << logic, node, stacks, but_detector >>

NextDetector == GetDetections

SpecDetector == InitDetector /\ [][NextDetector]_vars

\* C21: every detection that the detector node returns, of whatever kind, has
\* as category_id the id of a category of the model with its category_name,
\* and the empty id if no category has that name.
C21_CategoryIdFollowsName ==
  detector.evaluated =>
    \A k \in DetectionKinds : \A i \in 1..Len(detector.detections[k]) :
      LET d == detector.detections[k][i]
          named == { c \in 1..Len(detector.categories) :
                       detector.categories[c].name = d.category_name }
      IN IF named = {} THEN d.category_id = ""
         ELSE \E c \in named : d.category_id = detector.categories[c].id

\* --------------------------------------- _do_detections: the batches on disk
\* Lines 343-357 image by image. detecting.disk[idx + 1] is what
\* detections/<idx>.json holds: the number of detections of images of this run
\* (one per image), or Earlier for a file an earlier, interrupted run left.
batch_size == 200
Earlier == -1

\* ceil(n / batch_size)
NumBatches(n) == (n + batch_size - 1) \div batch_size

\* images[i:i+batch_size]
BatchLen(n, i) == IF n - i < batch_size THEN n - i ELSE batch_size

\* ActiveTrainingIO.save_detections(batch, idx) writes the file of that index.
save_detections(disk, batch, idx) ==
  IF idx < Len(disk) THEN [disk EXCEPT ![idx + 1] = batch] ELSE Append(disk, batch)

\* The images are there (line 343); an earlier run of the same training may
\* have left batch files.
InitDoDetections ==
  /\ InitTrainer
  /\ InitAside("detecting")
  /\ \E n \in 0..(MaxBatches * batch_size), left \in 0..MaxBatches :
       detecting = [pc |-> "images", n |-> n, i |-> 0, idx |-> 0,
                    disk |-> [j \in 1..left |-> Earlier], saves |-> 0]

\* Lines 344-353: without images one empty batch is saved; the loop is entered
\* and waits for the first _detect, or is over at once.
DoDetectionsImages ==
  /\ detecting.pc = "images"
  /\ detecting' = [detecting EXCEPT
                     !.pc = IF detecting.n > 0 THEN "detect" ELSE "done",
                     !.disk = IF detecting.n = 0 THEN save_detections(@, 0, 0) ELSE @,
                     !.saves = IF detecting.n = 0 THEN 1 ELSE 0]
  /\ last' = << "images", 0 >>
  /\ UNCHANGED << logic, node, stacks, but_detecting >>

\* DoDetectionsDetected with idx left as it is: every batch is written to
\* the same file.
DoDetectionsDetected_SameIndex ==
  /\ detecting.pc = "detect"
  /\ detecting' = [detecting EXCEPT
                     !.disk = save_detections(@, BatchLen(detecting.n, detecting.i), 0),
                     !.saves = @ + 1,
                     !.idx = @ + 1,
                     !.i = @ + batch_size,
                     !.pc = IF detecting.i + batch_size < detecting.n THEN "detect" ELSE "done"]
  /\ last' = << "detected", 0 >>
  /\ UNCHANGED << logic, node, stacks, but_detecting >>

\* Lines 353-355 and the head of the loop: _detect has returned, the batch is
\* saved, idx += 1, and the next batch is begun if there is one.
DoDetectionsDetected ==
  /\ detecting.pc = "detect"
  /\ detecting' = [detecting EXCEPT
                     !.disk = save_detections(@, BatchLen(detecting.n, detecting.i), detecting.idx),
                     !.saves = @ + 1,
                     !.idx = @ + 1,
                     !.i = @ + batch_size,
                     !.pc = IF detecting.i + batch_size < detecting.n THEN "detect" ELSE "done"]
  /\ last' = << "detected", 0 >>
  /\ UNCHANGED << logic, node, stacks, but_detecting >>

\* _detect raises or the task is cancelled while it waits (line 353).
DoDetectionsInterrupted ==
  /\ detecting.pc = "detect"
  /\ detecting' = [detecting EXCEPT !.pc = "interrupted"]
  /\ last' = << "interrupted", 0 >>
  /\ UNCHANGED << logic, node, stacks, but_detecting >>

NextDoDetections == DoDetectionsImages \/ DoDetectionsDetected \/ DoDetectionsInterrupted

SpecDoDetections == InitDoDetections /\ [][NextDoDetections]_vars

\* C22: whenever _do_detections waits for the inference of a batch, has been
\* interrupted there or has returned, every batch before the one in progress
\* is on disk under its index 0, 1, 2, ... and has at most 200 images, so an
\* interruption loses the batch in progress only; when it has returned it has
\* saved ceil(n / 200) batches, and for n = 0 exactly one, empty, at index 0.
C22_BatchesSavedInOrder ==
  LET d == detecting
  IN /\ d.pc \in {"detect", "interrupted", "done"} =>
          /\ d.i = d.idx * batch_size
          /\ Len(d.disk) >= d.idx
          /\ \A j \in 0..(d.idx - 1) :
               /\ d.disk[j + 1] = BatchLen(d.n, j * batch_size)
               /\ d.disk[j + 1] \in 1..batch_size
          /\ d.pc # "done" => d.i < d.n
     /\ d.pc = "done" =>
          /\ d.idx = NumBatches(d.n)
          /\ d.saves = IF d.n = 0 THEN 1 ELSE NumBatches(d.n)
          /\ d.n = 0 => Len(d.disk) >= 1 /\ d.disk[1] = 0

\* A run over more than 200 images, the last batch not full, has returned;
\* the two batch files are all there is on disk.
C22_Witness ==
  /\ detecting.pc = "done"
  /\ detecting.n > batch_size /\ detecting.n < 2 * batch_size
  /\ detecting.idx = 2
  /\ detecting.disk = << batch_size, detecting.n - batch_size >>
  /\ last = << "detected", 0 >>

\* ------------------------------------- sync_confusion_matrix and the models
\* The models of one training are numbered as the subprocess writes them;
\* sync.snapshot is the latest, 0 if there is none. sync.sent, sync.accepted
\* and sync.published are the models that update_training was called with,
\* that the loop answered with success, and that on_model_published was called
\* for. sync.missed: an opportunistic sync of this training has failed.

\* get_new_model(): the new best model if there is one, else None (0). A
\* model is no longer new once on_model_published has stored it.
get_new_model(y) == IF y.snapshot \in y.published THEN 0 ELSE y.snapshot

\* _train has started the subprocess (lines 164-172).
InitSync ==
  /\ InitTrainer
  /\ InitAside("sync")
  /\ sync = [NoSync EXCEPT !.tstate = "TrainingRunning", !.running = TRUE]

\* The subprocess writes a model that is better than the ones before.
SnapshotWritten ==
  /\ sync.running
  /\ sync.snapshot < MaxSnapshots
  /\ sync' = [sync EXCEPT !.snapshot = @ + 1]
  /\ last' = << "snapshot", 0 >>
  /\ UNCHANGED << logic, node, stacks, but_sync >>

\* The subprocess exits.
TrainingProcessGone ==
  /\ sync.running
  /\ sync' = [sync EXCEPT !.running = FALSE]
  /\ last' = << "process_gone", 0 >>
  /\ UNCHANGED << logic, node, stacks, but_sync >>

\* sync_confusion_matrix up to its await of update_training (lines 214-231):
\* without a model it returns at once and resets its error.
SyncCall(y, caller) ==
  LET model == get_new_model(y)
  IN IF model = 0
     THEN [y EXCEPT !.error = FALSE, !.caller = caller, !.model = 0]
     ELSE [y EXCEPT !.pc = "update_training", !.model = model, !.caller = caller,
                    !.sent = @ \cup {model}]

\* _train, lines 174-185: a 5s check while the subprocess runs.
OpportunisticSync ==
  /\ sync.tstate = "TrainingRunning" /\ sync.pc = "idle"
  /\ sync.running
  /\ sync' = SyncCall(sync, "_train")
  /\ last' = << IF get_new_model(sync) = 0 THEN "no_model" ELSE "update_training", 0 >>
  /\ UNCHANGED << logic, node, stacks, but_sync >>

\* _train, lines 172-173 and 189, and perform_state after it: the subprocess
\* is gone, no error in the log.
TrainReturns ==
  /\ sync.tstate = "TrainingRunning" /\ sync.pc = "idle"
  /\ ~sync.running
  /\ sync' = [sync EXCEPT !.tstate = "TrainingFinished"]
  /\ last' = << "train_returns", 0 >>
  /\ UNCHANGED << logic, node, stacks, but_sync >>

\* _run_training_loop, lines 120-122: perform_state('sync_confusion_matrix',
\* ConfusionMatrixSyncing, ConfusionMatrixSynced, sync_confusion_matrix).
FinalSync ==
  /\ sync.tstate = "TrainingFinished" /\ sync.pc = "idle"
  /\ sync' = IF get_new_model(sync) = 0
             THEN [SyncCall(sync, "perform_state") EXCEPT !.tstate = "ConfusionMatrixSynced"]
             ELSE [SyncCall(sync, "perform_state") EXCEPT !.tstate = "ConfusionMatrixSyncing"]
  /\ last' = << IF get_new_model(sync) = 0 THEN "no_model" ELSE "update_training", 0 >>
  /\ UNCHANGED << logic, node, stacks, but_sync >>

\* UpdateTrainingAnswered with on_model_published called whatever the answer.
UpdateTrainingAnswered_PublishesAnyway(answer) ==
  /\ sync.pc = "update_training"
  /\ sync' = [sync EXCEPT
                !.pc = "idle",
                !.accepted = IF answer = "success" THEN @ \cup {sync.model} ELSE @,
                !.published = @ \cup {sync.model},
                !.error = (answer # "success"),
                !.missed = @ \/ (answer # "success" /\ sync.caller = "_train"),
                !.tstate = IF sync.caller = "_train" THEN @
                           ELSE IF answer = "success" THEN "ConfusionMatrixSynced"
                           ELSE "TrainingFinished"]
  /\ last' = << answer, 0 >>
  /\ UNCHANGED << logic, node, stacks, but_sync >>

\* UpdateTrainingAnswered with the failure of the final sync swallowed as
\* _train swallows it.
UpdateTrainingAnswered_FinalFailureSwallowed(answer) ==
  /\ sync.pc = "update_training"
  /\ sync' = [sync EXCEPT
                !.pc = "idle",
                !.accepted = IF answer = "success" THEN @ \cup {sync.model} ELSE @,
                !.published = IF answer = "success" THEN @ \cup {sync.model} ELSE @,
                !.error = (answer # "success"),
                !.missed = @ \/ (answer # "success" /\ sync.caller = "_train"),
                !.tstate = IF sync.caller = "_train" THEN @ ELSE "ConfusionMatrixSynced"]
  /\ last' = << answer, 0 >>
  /\ UNCHANGED << logic, node, stacks, but_sync >>

\* sync_confusion_matrix after the call (lines 231-247) and its caller: the
\* loop answers with success, or with something else, or the call raises. On
\* success on_model_published(model) and errors.reset; otherwise errors.set
\* and the exception is raised, which _train swallows (lines 183-184) and
\* perform_state turns into the state before.
UpdateTrainingAnswered(answer) ==
  /\ sync.pc = "update_training"
  /\ sync' = [sync EXCEPT
                !.pc = "idle",
                !.accepted = IF answer = "success" THEN @ \cup {sync.model} ELSE @,
                !.published = IF answer = "success" THEN @ \cup {sync.model} ELSE @,
                !.error = (answer # "success"),
                !.missed = @ \/ (answer # "success" /\ sync.caller = "_train"),
                !.tstate = IF sync.caller = "_train" THEN @
                           ELSE IF answer = "success" THEN "ConfusionMatrixSynced"
                           ELSE "TrainingFinished"]
  /\ last' = << answer, 0 >>
  /\ UNCHANGED << logic, node, stacks, but_sync >>

NextSync ==
  \/ SnapshotWritten
  \/ TrainingProcessGone
  \/ OpportunisticSync
  \/ TrainReturns
  \/ FinalSync
  \/ \E answer \in {"success", "rejected", "raised"} : UpdateTrainingAnswered(answer)

SpecSync == InitSync /\ [][NextSync]_vars

\* C23: on_model_published is called for a model only in the step in which
\* the loop answers the update_training call for that model with success;
\* when the answer is not a success it is not called, the error is recorded
\* and the sync has failed (the final sync does not reach
\* ConfusionMatrixSynced); when get_new_model() returns no model no
\* update_training call is made.
C23_PublishedOnlyAfterSuccess ==
  [][ /\ sync'.published # sync.published =>
           /\ last' = << "success", 0 >>
           /\ sync.pc = "update_training"
           /\ sync'.published = sync.published \cup {sync.model}
           /\ sync.model \in sync'.accepted
      /\ (sync.pc = "update_training" /\ last'[1] \in {"rejected", "raised"}) =>
           /\ sync'.published = sync.published
           /\ sync'.error
           /\ sync'.tstate # "ConfusionMatrixSynced"
      /\ last' = << "no_model", 0 >> =>
           /\ sync'.sent = sync.sent
           /\ sync'.pc = "idle"
    ]_vars

\* The loop has rejected a model, has accepted it at the next sync, and the
\* model has been published then.
C23_Witness ==
  /\ last = << "success", 0 >>
  /\ sync.error = FALSE
  /\ sync.missed
  /\ sync.model \in sync.published
  /\ sync.snapshot = MaxSnapshots

\* C24: when the training is in ConfusionMatrixSynced the latest model of the
\* training, if there is one, has been sent with update_training and accepted
\* by the loop.
C24_LastSnapshotAccepted ==
  sync.tstate = "ConfusionMatrixSynced" =>
    \/ sync.snapshot = 0
    \/ sync.snapshot \in sync.sent /\ sync.snapshot \in sync.accepted

\* ConfusionMatrixSynced after an opportunistic sync has failed and the
\* subprocess has written its last model.
C24_Witness ==
  /\ sync.tstate = "ConfusionMatrixSynced"
  /\ sync.missed
  /\ sync.snapshot = MaxSnapshots
  /\ sync.accepted = {MaxSnapshots}

\* ------------------------------------------- all formats uploaded (C25)
\* C25: when upload_model returns for a training whose model files have all
\* been uploaded and recorded, in this attempt or in earlier ones, it has
\* stored a model uuid in model_id_for_detecting and has set and persisted
\* TrainModelUploaded, from where the state loop runs the detections.
C25_AllFormatsUploadedThenDetect ==
  [][ \A t \in TaskIds :
        ( /\ last' \in {<< "model_files", t >>, << "upload_format", t >>}
          /\ tasks'[t].pc # "upload_put"
          /\ \A f \in 1..MaxFormats :
               f \in model_upload_progress' /\ uploadCount'[training.id][f] >= 1 )
        => /\ training'.training_state = "TrainModelUploaded"
           /\ training'.model_id_for_detecting # 0
           /\ marker' = training' ]_vars

\* ------------------------------------------- DataDownloader.download_images
\* A file of the image folder is << stem, extension >>; image ids are numbers.
chunk_size == 10

\* f'{image_folder}/{image_id}.jpg' (node_helper.py, line 59)
ImageFile(image_id) == << image_id, "jpg" >>

\* glob(f'{image_folder}/*.jpg') (downloader.py, line 39)
GlobJpg(folder) == { file \in folder : file[2] = "jpg" }

\* os.path.splitext(os.path.basename(image))[0] (downloader.py, line 38)
Stem(file) == file[1]

\* filter_existing_images that lets every id through.
filter_existing_images_KeepsAll(all_image_ids, image_folder) ==
  all_image_ids

\* DataDownloader.filter_existing_images, lines 35-44.
filter_existing_images(all_image_ids, image_folder) ==
  LET ids == { Stem(image) : image \in GlobJpg(image_folder) }
  IN SelectSeq(all_image_ids, LAMBDA id : id \notin ids)

\* The ids of the chunk that begins after position i: image_ids[i:i+chunk_size].
Chunk(ids, i) == { j \in 1..Len(ids) : i < j /\ j <= i + chunk_size }
ChunkIds(ids, i) == SubSeq(ids, i + 1, IF i + chunk_size < Len(ids) THEN i + chunk_size ELSE Len(ids))

\* The loop of node_helper.download_images at the head of an iteration
\* (lines 44-50): the requests of the next chunk are started, or it is over.
NextChunk(d, i) ==
  IF i < Len(d.new_image_ids)
  THEN [d EXCEPT !.pc = "gather", !.i = i, !.flying = Chunk(d.new_image_ids, i),
                 !.requested = @ \o ChunkIds(d.new_image_ids, i)]
  ELSE [d EXCEPT !.pc = "done", !.i = i, !.flying = {}]

\* download_images is called with the ids 1..n and a folder that has some of
\* their images, other images and a file that is not a jpg.
InitDownload ==
  /\ InitTrainer
  /\ InitAside("download")
  /\ \E n \in 0..MaxImages,
        folder \in SUBSET {ImageFile(1), ImageFile(MaxImages), ImageFile(99), << 3, "png" >>} :
       download = [NoDownload EXCEPT !.pc = "start", !.run = 1,
                                     !.image_ids = [j \in 1..n |-> j],
                                     !.folder = folder, !.before = folder]

\* download_images, downloader.py lines 30-32, up to the first gather.
DownloadImages ==
  /\ download.pc = "start"
  /\ download' = NextChunk([download EXCEPT
                              !.new_image_ids = filter_existing_images(download.image_ids, download.folder)],
                           0)
  /\ last' = << "download_images", download.run >>
  /\ UNCHANGED << logic, node, stacks, but_download >>

\* download_one_image (lines 56-60) of request j got 200 and wrote the file;
\* when it was the last of its chunk gather returns and the loop goes on.
ImageDownloaded(j) ==
  /\ download.pc = "gather"
  /\ j \in download.flying
  /\ LET d == [download EXCEPT !.folder = @ \cup {ImageFile(download.new_image_ids[j])},
                               !.flying = @ \ {j}]
     IN download' = IF d.flying = {} THEN NextChunk(d, d.i + chunk_size) ELSE d
  /\ last' = << "image", j >>
  /\ UNCHANGED << logic, node, stacks, but_download >>

\* Request j is answered with another status: the assert of line 58 fails and
\* gather raises.
ImageRefused(j) ==
  /\ download.pc = "gather"
  /\ j \in download.flying
  /\ download' = [download EXCEPT !.pc = "failed"]
  /\ last' = << "image_refused", j >>
  /\ UNCHANGED << logic, node, stacks, but_download >>

\* download_images is called again with the same ids.
DownloadAgain ==
  /\ download.pc = "done" /\ download.run = 1
  /\ download' = [download EXCEPT !.pc = "start", !.run = 2, !.before = download.folder,
                                  !.requested = << >>]
  /\ last' = << "again", 0 >>
  /\ UNCHANGED << logic, node, stacks, but_download >>

NextDownload ==
  \/ DownloadImages
  \/ \E j \in 1..MaxImages : ImageDownloaded(j)
  \/ \E j \in 1..MaxImages : ImageRefused(j)
  \/ DownloadAgain

SpecDownload == InitDownload /\ [][NextDownload]_vars

\* The ids of the list that had no <id>.jpg when the run began.
Missing(d) ==
  { d.image_ids[j] : j \in 1..Len(d.image_ids) } \ { Stem(file) : file \in GlobJpg(d.before) }

Requested(d) == { d.requested[j] : j \in 1..Len(d.requested) }

\* C26: download_images requests only ids of its list for which no <id>.jpg
\* existed, each once and never more than 10 at a time; when it has returned
\* it has requested all of them and the folder has their images in addition;
\* a second run with the same ids after a successful one requests nothing
\* and leaves the folder as it was.
C26_RequestsExactlyTheMissing ==
  LET d == download
  IN /\ d.pc \in {"gather", "failed", "done"} =>
          /\ Requested(d) \subseteq Missing(d)
          /\ Cardinality(Requested(d)) = Len(d.requested)
          /\ Cardinality(d.flying) <= chunk_size
          /\ { d.new_image_ids[j] : j \in d.flying } \subseteq Requested(d)
     /\ d.pc = "done" =>
          /\ Requested(d) = Missing(d)
          /\ d.folder = d.before \cup { ImageFile(id) : id \in Missing(d) }
     /\ (d.pc = "done" /\ d.run = 2) =>
          /\ d.requested = << >>
          /\ d.folder = d.before

\* The second run has returned after a first one that found an image of the
\* list in the folder and requested more than one chunk.
C26_Witness ==
  /\ download.pc = "done" /\ download.run = 2
  /\ last = << "download_images", 2 >>
  /\ Len(download.image_ids) = MaxImages
  /\ ImageFile(99) \in download.folder
  /\ << 3, "png" >> \in download.folder
  /\ Cardinality(download.folder) = MaxImages + 2

\* ------------------------------------------------ Trainer._upload_detections
\* batch_size of _upload_detections (line 196)
upload_batch_size == 500

\* _upload_detections is called with n detections.
InitUpload ==
  /\ InitTrainer
  /\ InitAside("upload")
  /\ \E n \in 0..(MaxBatches * upload_batch_size) :
       upload = [NoUpload EXCEPT !.pc = IF n = 0 THEN "done" ELSE "post", !.n = n]

\* Lines 197-207: the POST of the batch detections[i:i+batch_size] is answered
\* with a status, or raises. Whatever happens is logged and the loop goes on
\* to the next batch.
UploadDetectionsPosted(status) ==
  /\ upload.pc = "post"
  /\ upload' = [upload EXCEPT
                  !.posts = Append(@, upload.i),
                  !.accepted = IF status = 200 THEN @ \cup {upload.i} ELSE @,
                  !.i = @ + upload_batch_size,
                  !.pc = IF upload.i + upload_batch_size < upload.n THEN "post" ELSE "done"]
  /\ last' = << "posted", status >>
  /\ UNCHANGED << logic, node, stacks, but_upload >>

NextUpload == \E status \in {200, 500, -1} : UploadDetectionsPosted(status)

SpecUpload == InitUpload /\ [][NextUpload]_vars

\* C27: when _upload_detections has finished, every batch of at most 500
\* detections has been accepted by the loop: a batch whose POST failed has
\* been posted again.
C27_EveryBatchAccepted ==
  upload.pc = "done" =>
    \A i \in 0..(upload.n - 1) : i % upload_batch_size = 0 => i \in upload.accepted

\* --------------------------------------------- Node: connect and disconnect
\* Node.update_state that sends the status in every state.
Node_update_state_AlwaysSends(b, state) ==
  [b EXCEPT !.state = state, !.sent = Append(@, state), !.calls = @ + 1]

\* Node.update_state (node.py, lines 155-158) up to the await inside
\* send_status (lines 173-184): the state is set and, unless it is Offline,
\* the status goes out with sio.call('update_trainer').
Node_update_state(b, state) ==
  IF state # "Offline"
  THEN [b EXCEPT !.state = state, !.sent = Append(@, state), !.calls = @ + 1]
  ELSE [b EXCEPT !.state = state]

\* sio 'connect' (lines 114-118): reset(), update_state(Idle).
NodeOnConnect ==
  /\ ~basenode.connected
  /\ Len(basenode.sent) < MaxStatuses
  /\ basenode' = Node_update_state([basenode EXCEPT !.connected = TRUE, !.state = "Offline"], "Idle")
  /\ last' = << "connect", 0 >>
  /\ UNCHANGED << logic, node, stacks, but_basenode >>

\* sio 'disconnect' (lines 120-122): update_state(Offline).
NodeOnDisconnect ==
  /\ basenode.connected
  /\ basenode' = Node_update_state([basenode EXCEPT !.connected = FALSE], "Offline")
  /\ last' = << "disconnect", 0 >>
  /\ UNCHANGED << logic, node, stacks, but_basenode >>

\* sio 'begin_training' (lines 83-104): the training task is created and
\* update_state(Running).
NodeOnBeginTraining ==
  /\ basenode.connected
  /\ Len(basenode.sent) < MaxStatuses
  /\ basenode' = Node_update_state(basenode, "Running")
  /\ last' = << "begin_training", 0 >>
  /\ UNCHANGED << logic, node, stacks, but_basenode >>

\* sio 'stop_training' (lines 106-112): update_state(Idle).
NodeOnStopTraining ==
  /\ basenode.connected
  /\ Len(basenode.sent) < MaxStatuses
  /\ basenode' = Node_update_state(basenode, "Idle")
  /\ last' = << "stop_training", 0 >>
  /\ UNCHANGED << logic, node, stacks, but_basenode >>

\* update_status (lines 160-172): unless Offline the state becomes Idle and
\* the status is sent.
NodeUpdateStatus ==
  /\ Len(basenode.sent) < MaxStatuses
  /\ basenode' = IF basenode.state # "Offline"
                 THEN [basenode EXCEPT !.state = "Idle", !.sent = Append(@, "Idle"), !.calls = @ + 1]
                 ELSE basenode
  /\ last' = << "update_status", 0 >>
  /\ UNCHANGED << logic, node, stacks, but_basenode >>

\* An update_trainer call is answered, or times out: send_status returns or
\* raises (lines 182-184), and the handler that called it ends.
NodeStatusAnswered(ok) ==
  /\ basenode.calls > 0
  /\ basenode' = [basenode EXCEPT !.calls = @ - 1]
  /\ last' = << "answered", IF ok THEN 1 ELSE 0 >>
  /\ UNCHANGED << logic, node, stacks, but_basenode >>

NextBaseNode ==
  \/ NodeOnConnect
  \/ NodeOnDisconnect
  \/ NodeOnBeginTraining
  \/ NodeOnStopTraining
  \/ NodeUpdateStatus
  \/ \E ok \in BOOLEAN : NodeStatusAnswered(ok)

SpecBaseNode == Init /\ [][NextBaseNode]_vars

\* C28: the disconnect handler makes the state Offline and sends nothing; the
\* connect handler makes the state Idle and sends one status, with state Idle.
C28_OfflineSilentIdleSent ==
  [][ /\ last' = << "disconnect", 0 >> =>
           /\ basenode'.state = "Offline"
           /\ basenode'.sent = basenode.sent
           /\ basenode'.calls = basenode.calls
      /\ last' = << "connect", 0 >> =>
           /\ basenode'.state = "Idle"
           /\ basenode'.sent = Append(basenode.sent, "Idle")
           /\ basenode'.calls = basenode.calls + 1
    ]_vars

\* The node has been disconnected while Running and is connected again.
C28_Witness ==
  /\ last = << "connect", 0 >>
  /\ basenode.state = "Idle"
  /\ basenode.sent = << "Idle", "Running", "Idle" >>

\* ------------------------------------------------------------------ Executor
\* Popen.poll(): the return code once the child has exited, else None.
poll(e) == IF e.child = "exited" THEN "returncode" ELSE "None"

\* psutil.Process(pid) finds the child as long as it has not been reaped.
NoSuchProcess(e) == e.child # "alive"

\* Executor.is_process_running, lines 24-36.
is_process_running(e) ==
  IF e.process = "None" THEN FALSE
  ELSE IF poll(e) # "None" THEN FALSE
  ELSE IF NoSuchProcess(e) THEN FALSE
  ELSE TRUE

\* Executor.start, lines 14-22: a new subprocess; an earlier one is forgotten.
ExecutorStart ==
  /\ popen.pc \in {"idle", "returned", "raised"}
  /\ popen.starts < MaxStarts
  /\ popen' = [popen EXCEPT !.process = "Popen", !.child = "alive", !.pc = "idle",
                            !.signals = << >>, !.starts = @ + 1,
                            !.history = Append(@, popen.signals)]
  /\ last' = << "start", 0 >>
  /\ UNCHANGED << logic, node, stacks, but_popen >>

\* The subprocess exits: by itself, after SIGTERM, or because of SIGKILL.
ChildExits ==
  /\ popen.child = "alive"
  /\ popen' = [popen EXCEPT !.child = "exited"]
  /\ last' = << "exit", 0 >>
  /\ UNCHANGED << logic, node, stacks, but_popen >>

\* Executor.stop, lines 43-45: without a process terminate() raises
\* AttributeError; terminate() sends SIGTERM to a child that has not exited;
\* communicate(timeout=3) returns at once for a child that has exited.
ExecutorStop ==
  /\ popen.pc \in {"idle", "returned", "raised"}
  /\ popen' = IF popen.process = "None" THEN [popen EXCEPT !.pc = "raised"]
              ELSE IF popen.child = "exited" THEN [popen EXCEPT !.pc = "returned"]
              ELSE [popen EXCEPT !.pc = "communicate", !.signals = Append(@, "SIGTERM")]
  /\ last' = << "stop", 0 >>
  /\ UNCHANGED << logic, node, stacks, but_popen >>

\* communicate returns when the child has exited (lines 45 and 48), and so
\* does stop().
ExecutorStopCommunicated ==
  /\ popen.pc \in {"communicate", "communicate_killed"}
  /\ popen.child = "exited"
  /\ popen' = [popen EXCEPT !.pc = "returned"]
  /\ last' = << "stopped", 0 >>
  /\ UNCHANGED << logic, node, stacks, but_popen >>

\* ExecutorStopTimeout that gives up instead of killing.
ExecutorStopTimeout_GivesUp ==
  /\ popen.pc = "communicate"
  /\ popen.child = "alive"
  /\ popen' = [popen EXCEPT !.pc = "returned"]
  /\ last' = << "timeout", 0 >>
  /\ UNCHANGED << logic, node, stacks, but_popen >>

\* Lines 46-48: the 3 s are over and the child has not exited: TimeoutExpired,
\* kill(), communicate() without timeout.
ExecutorStopTimeout ==
  /\ popen.pc = "communicate"
  /\ popen.child = "alive"
  /\ popen' = [popen EXCEPT !.pc = "communicate_killed", !.signals = Append(@, "SIGKILL")]
  /\ last' = << "timeout", 0 >>
  /\ UNCHANGED << logic, node, stacks, but_popen >>

NextExecutor ==
  \/ ExecutorStart
  \/ ChildExits
  \/ ExecutorStop
  \/ ExecutorStopCommunicated
  \/ ExecutorStopTimeout

SpecExecutor == Init /\ [][NextExecutor]_vars

\* C29: is_process_running() is true exactly while a subprocess has been
\* started and has not exited; stop() sends SIGTERM first and SIGKILL only
\* when the grace period ends with the child not exited; and when stop() has
\* returned is_process_running() is false.
C29_StopTerminatesThenKills ==
  /\ is_process_running(popen) <=> (popen.starts > 0 /\ popen.child = "alive")
  /\ popen.signals \in {<< >>, << "SIGTERM" >>, << "SIGTERM", "SIGKILL" >>}
  /\ popen.pc = "communicate" => popen.signals = << "SIGTERM" >>
  /\ popen.pc = "communicate_killed" => popen.signals = << "SIGTERM", "SIGKILL" >>
  /\ popen.pc = "returned" => ~is_process_running(popen)

\* stop() has returned after it had to kill a subprocess that was not the
\* first one.
C29_Witness ==
  /\ popen.pc = "returned"
  /\ last = << "stopped", 0 >>
  /\ popen.signals = << "SIGTERM", "SIGKILL" >>
  /\ popen.starts > 1

\* ------------------------------------ exceptions and the try blocks they meet
\* The classes an except clause names, for each exception that an await of a
\* handler can raise (since Python 3.8 CancelledError is a BaseException and
\* not an Exception).
Ancestors ==
  [CancelledError |-> {"CancelledError", "BaseException"},
   TrainingError |-> {"TrainingError", "Exception", "BaseException"},
   BadNamespaceError |-> {"BadNamespaceError", "Exception", "BaseException"},
   Exception |-> {"Exception", "BaseException"}]

\* except cls: what the clause does. key: the error key it sets ("none" if it
\* sets none); rollback: it sets training_state back; reraise: it ends with
\* raise (FALSE: the code after the try block goes on).
Clause(cls, key, rollback, reraise) ==
  [cls |-> cls, key |-> key, rollback |-> rollback, reraise |-> reraise]

\* SyncTry whose second clause is `except BaseException`.
SyncTry_CatchesBaseException ==
  [name |-> "sync_confusion_matrix",
   clauses |-> << Clause("BadNamespaceError", "sync_confusion_matrix", FALSE, TRUE),
                  Clause("BaseException", "sync_confusion_matrix", FALSE, TRUE) >>]

\* sync_confusion_matrix, lines 215-245.
SyncTry ==
  [name |-> "sync_confusion_matrix",
   clauses |-> << Clause("BadNamespaceError", "sync_confusion_matrix", FALSE, TRUE),
                  Clause("Exception", "sync_confusion_matrix", FALSE, TRUE) >>]

\* _train, lines 172-178: the try around the opportunistic sync.
TrainSyncTry ==
  [name |-> "_train (sync)",
   clauses |-> << Clause("CancelledError", "none", FALSE, TRUE),
                  Clause("Exception", "none", FALSE, FALSE) >>]

\* _train, lines 160-196.
TrainTry ==
  [name |-> "_train",
   clauses |-> << Clause("TrainingError", "none", TRUE, TRUE) >>]

\* upload_model, lines 253-273.
UploadModelTry ==
  [name |-> "upload_model",
   clauses |-> << Clause("CancelledError", "none", FALSE, TRUE),
                  Clause("Exception", "upload_model", TRUE, FALSE) >>]

\* perform_state: an exception is recorded under the key and the state is set
\* back, without raise; a CancelledError is propagated.
PerformStateTry(key) ==
  [name |-> "perform_state",
   clauses |-> << Clause("CancelledError", "none", FALSE, TRUE),
                  Clause("Exception", key, TRUE, FALSE) >>]

\* run, lines 88-99.
RunTry ==
  [name |-> "run",
   clauses |-> << Clause("CancelledError", "none", FALSE, FALSE),
                  Clause("Exception", "none", FALSE, FALSE) >>]

\* The awaits of the handlers and the try blocks around each of them, the
\* innermost first.
AwaitSites ==
  [prepare |-> << PerformStateTry("prepare"), RunTry >>,
   download_model |-> << PerformStateTry("download_model"), RunTry >>,
   start_training |-> << TrainTry, PerformStateTry("run_training"), RunTry >>,
   train_sync |-> << SyncTry, TrainSyncTry, TrainTry, PerformStateTry("run_training"), RunTry >>,
   train_sleep |-> << TrainTry, PerformStateTry("run_training"), RunTry >>,
   final_sync |-> << SyncTry, PerformStateTry("sync_confusion_matrix"), RunTry >>,
   upload_model |-> << UploadModelTry, RunTry >>,
   detecting |-> << PerformStateTry("detecting"), RunTry >>,
   upload_detections |-> << PerformStateTry("upload_detections"), RunTry >>,
   clear_training |-> << RunTry >>]

\* The first clause of a try block that takes the exception (0: none does).
Catching(frame, exc) ==
  LET taking == { c \in 1..Len(frame.clauses) : frame.clauses[c].cls \in Ancestors[exc] }
  IN IF taking = {} THEN 0 ELSE CHOOSE c \in taking : \A o \in taking : c <= o

\* An await of a handler raises.
InitUnwind ==
  /\ InitTrainer
  /\ InitAside("unwind")
  /\ \E site \in DOMAIN AwaitSites, exc \in DOMAIN Ancestors :
       unwind = [NoException EXCEPT !.site = site, !.exc = exc, !.status = "raised"]

\* The exception reaches the next try block and a clause of it takes it.
ExceptTakes ==
  /\ unwind.status = "raised"
  /\ unwind.depth < Len(AwaitSites[unwind.site])
  /\ LET frame == AwaitSites[unwind.site][unwind.depth + 1]
         c == Catching(frame, unwind.exc)
     IN /\ c # 0
        /\ unwind' = [unwind EXCEPT
                        !.depth = @ + 1,
                        !.errors = IF frame.clauses[c].key = "none" THEN @
                                   ELSE @ \cup {frame.clauses[c].key},
                        !.rollback = @ \/ frame.clauses[c].rollback,
                        !.status = IF frame.clauses[c].reraise THEN "raised"
                                   ELSE IF frame.name # "run" THEN "swallowed"
                                   ELSE IF c = 1 THEN "run_cancelled" ELSE "run_logged"]
  /\ last' = << "except", unwind.depth + 1 >>
  /\ UNCHANGED << logic, node, stacks, but_unwind >>

\* No clause of the next try block takes the exception.
ExceptPasses ==
  /\ unwind.status = "raised"
  /\ unwind.depth < Len(AwaitSites[unwind.site])
  /\ Catching(AwaitSites[unwind.site][unwind.depth + 1], unwind.exc) = 0
  /\ unwind' = [unwind EXCEPT !.depth = @ + 1]
  /\ last' = << "passes", unwind.depth + 1 >>
  /\ UNCHANGED << logic, node, stacks, but_unwind >>

NextUnwind == ExceptTakes \/ ExceptPasses

SpecUnwind == InitUnwind /\ [][NextUnwind]_vars

\* C30: a CancelledError raised at an await of a handler sets no error key,
\* sets no state back and is swallowed by no try block of a handler: it is
\* still on its way out or has arrived in the except clause of run().
C30_CancelledErrorPropagates ==
  unwind.exc = "CancelledError" =>
    /\ unwind.errors = {}
    /\ ~unwind.rollback
    /\ unwind.status \in {"raised", "run_cancelled"}
    /\ unwind.status = "run_cancelled" <=> unwind.depth = Len(AwaitSites[unwind.site])

\* A CancelledError raised inside the opportunistic sync of _train has
\* arrived in run().
C30_Witness ==
  /\ unwind.exc = "CancelledError"
  /\ unwind.site = "train_sync"
  /\ unwind.status = "run_cancelled"
  /\ unwind.depth = 5

\* ------------------------------------------------- resume or start (C31)
\* C31: when can_resume() returns true, _start_training launches the training
\* with resume() and with neither start_training() nor
\* start_training_from_scratch(), whatever base_model_id is; when it returns
\* false, the training is launched with exactly one of start_training() and
\* start_training_from_scratch().
C31_ResumeInsteadOfStart ==
  [][ \A t \in TaskIds : \A resume \in BOOLEAN :
        (\E stale \in BOOLEAN : TrainStarted(t, stale, resume)) =>
          /\ launched = "none"
          /\ resume => (launched' = "resume" /\ launched' \notin StartHooks)
          /\ ~resume => launched' \in StartHooks ]_vars

\* A training whose base model is a pretrained one has been launched with
\* resume().
C31_Witness ==
  \E t \in TaskIds :
    /\ last = << "train_started", t >>
    /\ training # None
    /\ training.base_model_id = "pretrained"
    /\ launched = "resume"
    /\ executor = "running"

\* ------------------------------------------- cancelled by shutdown (C32)
\* C32: when the training task is cancelled with the shutdown event set, by
\* shutdown() itself or by a stop() after it, run() ends without setting
\* ReadyForCleanup and without clear_training: the training in memory, the
\* marker with its training_state and the files of the training are as
\* before, and a restarted node loads the training of the marker.
C32_ShutdownKeepsTraining ==
  [][ /\ \A t \in TaskIds :
           ( /\ training # None
             /\ training_task = t
             /\ \/ last' = << "shutdown", 0 >>
                \/ last' = << "stop_cancel", t >> /\ shutdown_event ) =>
             /\ training' = training
             /\ marker' = marker
             /\ files' = files
             /\ tasks'[t] = IdleTask
             /\ training_task' = -1
      /\ (last' = << "startup", 0 >> /\ marker # None) =>
           /\ training' = marker
           /\ marker' = marker ]_vars

\* shutdown() has stopped the subprocess and cancelled the task inside _train:
\* the training is still TrainingRunning, in memory and in the marker, and no
\* task is left.
C32_Witness ==
  /\ last = << "shutdown", 0 >>
  /\ shutdown_event
  /\ training # None
  /\ training.training_state = "TrainingRunning"
  /\ marker = training
  /\ training_task = -1
  /\ \A t \in TaskIds : tasks[t] = IdleTask

\* ------------------------------------- clear_training that fails (C33)
\* clear_training, line 367: send_status raises (the loop does not answer, or
\* answers with a refusal that the node turns into an exception). Line 368 is
\* not reached; the exception leaves _run_training_loop and is logged by
\* run(), or it leaves run() when run() is cleaning up after a cancellation.
ClearStatusError(t) ==
  /\ alive
  /\ tasks[t].pc = "clear_status"
  /\ TaskStep(t, IdleTask)
  /\ last' = << "clear_failed", t >>
  /\ UNCHANGED << proc, training, marker, errors, exec, files, hist >>
  /\ UNCHANGED start
  /\ UNCHANGED others

\* Runs in which stop() may cancel the task and send_status may fail inside
\* clear_training; no shutdown and no kill.
NextCleanup ==
  \/ BeginTraining(FALSE, "uuid4")
  \/ \E t \in TaskIds : HandlersAdvance(t) \/ ClearStatusError(t)
  \/ ProcessExit
  \/ StopExecutor
  \/ StopCancel

SpecCleanup == Init /\ [][NextCleanup]_vars

\* C33: the node never ends with the marker deleted while a training in
\* ReadyForCleanup is still held as active and no state-machine task is
\* running, even if sending the status fails during the clean-up.
C33_NoTrainingLeftBehind ==
  ~ ( /\ alive
      /\ training # None
      /\ training.training_state = "ReadyForCleanup"
      /\ marker = None
      /\ \A t \in TaskIds : tasks[t].pc = "none" )

\* ------------------------------ TrainerNode: disconnect and reconnect
\* Node.on_disconnect (node.py, lines 120-122): update_state(Offline) sets the
\* state and sends nothing. The trainer and its subprocess are left as they
\* are, and so are the coroutines that are waiting.
NodeDisconnect ==
  /\ node.state # "Offline"
  /\ node' = [node EXCEPT !.state = "Offline", !.ev = << >>]
  /\ last' = << "on_disconnect", 0 >>
  /\ UNCHANGED << stacks, logic, aside >>

\* The TrainerNode with an event channel that may break and come back at any
\* time.
NextReconnect ==
  \/ NextNode
  \/ NodeDisconnect

SpecReconnect == Init /\ [][NextReconnect]_vars

\* C35: while the subprocess of a training is running and the node is
\* connected to the loop, the state of the node is not Idle, also after a
\* disconnect followed by a reconnect.
C35_NotIdleWhileExecutorRuns ==
  (node.executor = "running" /\ node.state # "Offline") => node.state # "Idle"

\* ------------------------------------------ one subprocess at a time (C34)
\* C34: a new Executor takes the place of the previous one only when the
\* subprocess of the previous one is not running, so that at most one
\* subprocess started by the node is alive: in Trainer.begin_training
\* (executor "created") and in TrainerLogic._train (executor "idle" at the
\* dispatch of _train).
C34_NewExecutorOnlyWhenNoneRuns ==
  [][ /\ (node'.executor = "created" /\ node.executor # "created") => node.executor # "running"
      /\ \A t \in TaskIds :
           (last' = << "dispatch", t >> /\ tasks'[t].key = "run_training") =>
             executor # "running" ]_vars

\* ------------------------------------- TrainerNode.stop_training (C36)
StoppingStates == {"Stopping", "Uploading", "Detecting"}

C37_NeverLeftPreparing ==
  node.state = "Preparing" => stacks["begin"] # << >>

\* ------------------------- send_status and stop_training call each other (C38)
\* The places of a stop_training that has passed its guard.
StopPcs == CrashStopPcs \cup {"idle", "final", "failed"}

\* The calls of stop_training, of all coroutines, that have passed the guard
\* and have not yet set the node to Idle.
StopsUnderWay ==
  UNION { { << k, i >> : i \in { j \in DOMAIN stacks[k] :
                                   /\ stacks[k][j].fn = "stop_training"
                                   /\ stacks[k][j].pc \in CrashStopPcs } } : k \in NodeTasks }

C39_FailedSyncKeepsTraining ==
  [][ \A t \in TaskIds :
        last' = << "train_sync_failed", t >> =>
          /\ training.training_state = "TrainingRunning"
          /\ training' = training
          /\ marker' = marker
          /\ executor = "running" /\ executor' = "running"
          /\ "sync_confusion_matrix" \in errors'
          /\ errors' \ errors \subseteq {"sync_confusion_matrix"}
          /\ tasks'[t] = tasks[t]
          /\ tasks'[t].pc = "fn" /\ tasks'[t].key = "run_training" /\ tasks'[t].i = 1
          /\ training_task' = training_task ]_vars

\* A sync inside _train has failed: the training is TrainingRunning with the
\* error 'sync_confusion_matrix', the subprocess runs.
C39_Witness ==
  \E t \in TaskIds :
    /\ last = << "train_sync_failed", t >>
    /\ training # None
    /\ training.training_state = "TrainingRunning"
    /\ marker = training
    /\ executor = "running"
    /\ errors = {"sync_confusion_matrix"}
    /\ tasks[t].pc = "fn" /\ tasks[t].key = "run_training"

\* ------------------------------------ an upload without a model id (C40)
\* C40: when get_latest_model_files yields no files or an upload returns no
\* model id, upload_model leaves TrainModelUploading for ReadyForCleanup, the
\* error keys and the marker are left as they were, no model id for detecting
\* is stored and no detection is made, the task is back at the loop head, and
\* the next thing the task does from ReadyForCleanup is clear_training (from
\* the loop, or from run() when stop() cancels the task), unless the task
\* ends with the process; it never starts the detections.
C40_NoModelIdEndsInCleanup ==
  [][ \A t \in TaskIds :
        /\ (last' \in {<< "no_model_files", t >>, << "upload_none", t >>}) =>
             /\ training.training_state = "TrainModelUploading"
             /\ training' = SetState(training, "ReadyForCleanup")
             /\ errors' = errors
             /\ marker' = marker
             /\ detections' = detections
             /\ tasks'[t] = LoopHead(training')
             /\ tasks'[t].pc = "sleep" /\ tasks'[t].tstate = "ReadyForCleanup"
        /\ ( /\ tasks[t].pc = "sleep" /\ tasks[t].tstate = "ReadyForCleanup"
             /\ tasks'[t] # tasks[t] ) =>
             \/ /\ tasks'[t].pc = "clear_data"
                /\ training' = training
                /\ last' \in {<< "dispatch", t >>, << "stop_cancel", t >>}
             \/ tasks'[t] = IdleTask ]_vars

\* An upload has returned no model id: the training is ReadyForCleanup without
\* the error 'upload_model', the task waits at the loop head.
C40_Witness ==
  \E t \in TaskIds :
    /\ last = << "upload_none", t >>
    /\ training # None
    /\ training.training_state = "ReadyForCleanup"
    /\ "upload_model" \notin errors
    /\ tasks[t].pc = "sleep" /\ tasks[t].tstate = "ReadyForCleanup"
    /\ training_task = t

====
